---- MODULE Spec2Model ----
(***************************************************************************)
(* pdf2epub: the retrying API invoker (src/utils/network_utils.py), the    *)
(* EPUB assembly pipeline (src/generate_epub.py) and the translation       *)
(* pipeline (src/translate_epub.py), with their progress ledgers.          *)
(*                                                                         *)
(* One behaviour follows one command line tool, chosen by Init in `prog`:  *)
(*   "invoker"    generate_content_with_retry called on its own            *)
(*   "generate"   runs of generate_epub.py main()                          *)
(*   "translate"  runs of translate_epub.py translate_epub()               *)
(* Text is a sequence of tokens; a file is absent, torn (opened for        *)
(* writing and not yet written) or holds a content value.                  *)
(***************************************************************************)
EXTENDS Integers, Sequences, FiniteSets, TLC

(***************************************************************************)
(* Bounds of the model.                                                    *)
(***************************************************************************)
MaxRetries == 3
MaxChunks == 2
NumChapters == 2
MaxRuns == 2
NumRetries == 2
MaxPageImages == 2
NumExtra == 1

(***************************************************************************)
(* Small helpers.                                                          *)
(***************************************************************************)
Min(a, b) == IF a <= b THEN a ELSE b

Max(a, b) == IF a >= b THEN a ELSE b

RECURSIVE Pow2(_)
Pow2(n) == IF n <= 0 THEN 1 ELSE 2 * Pow2(n - 1)

RECURSIVE Concat(_)
Concat(ss) == IF ss = <<>> THEN <<>> ELSE Head(ss) \o Concat(Tail(ss))

VARIABLES
  prog,                 \* which tool this behaviour runs
  \* ---- generate_content_with_retry (network_utils.py 135-239)
  i_pc,                 \* "idle" | "loop" | "stream" | "returned" | "raised"
  max_retries,          \* argument
  max_backoff,          \* argument, in tenths of a second
  use_streaming,        \* argument
  operation_name,       \* argument
  retry_count,          \* local
  response,             \* local: [some |-> FALSE] is None
  aggregated_response,  \* text of the AggregatedResponse of this attempt
  i_error,              \* the exception leaving the function, if any
  i_calls,              \* history: client calls made
  i_sleeps,             \* history: time.sleep arguments, tenths of a second
  i_outcomes,           \* history: per attempt "exc" | "null" | "ok"
  i_chunks,             \* history: chunks received in the current attempt
  i_failed,             \* history: the chunks received in the attempts that failed
  \* ---- generate_epub.py main(): the process
  g_pc,                 \* position in main(): [s: stage, k: step, i: chapter]
  g_run,                \* runs of the tool started so far
  g_end,                \* how the last run ended, and where
  progress,             \* the in-memory ledger
  g_retry,              \* retry_count of create_toc_html / create_chapter_html
  g_html,               \* html_content of create_toc_html / create_chapter_html
  g_unused,             \* unused_images of clean_unused_images
  \* ---- generate_epub.py: output/<title>/ on disk
  g_ledger,             \* generation_progress.json
  g_dir,                \* epub/ exists
  g_files,              \* plain files of epub/
  g_docs,               \* text/toc.html (0) and text/chapter_i.html (i)
  g_images,             \* files of epub/images/
  g_opf,                \* images listed in the manifest of content.opf
  g_archive,            \* <title>.epub
  g_hist,               \* history of the current run
  \* ---- translate_epub.py translate_epub(): the process
  t_pc,                 \* position in translate_epub(): [s: stage, k: step, i: index]
  t_run,                \* runs of the tool started so far
  t_end,                \* how the last run ended, and at which unit
  t_cfg,                \* config.yaml and the input EPUB
  t_progress,           \* the in-memory ledger
  t_resuming,           \* local resuming
  t_read,               \* local html_content: what was read from the unit's file
  t_translated_html,    \* local translated_html
  t_previous_content,   \* local previous_content: [none |-> TRUE] is None
  \* ---- translate_epub.py: output/<title>/ on disk
  t_ledger,             \* translation_progress.json
  t_extract,            \* extract/ holds the EPUB's files
  t_dir,                \* translated/ exists
  t_files,              \* the HTML files of translated/
  t_meta,               \* toc.ncx and content.opf of translated/
  t_archive,            \* <translated title>.epub
  t_hist,               \* history of the current run
  \* ---- utils/html_utils.py clean_html_response(): one or two calls
  s_pc,                 \* "idle" | "entry" | "loop" | "done"
  s_case,               \* what is cleaned: the document, its wrapping or split
  s_html_content,       \* argument and local html_content
  s_previous_content,   \* argument previous_content: [some |-> FALSE] is None
  s_max_retries,        \* argument max_retries
  s_retry_count,        \* local retry_count
  s_result,             \* what the call returned or raised
  s_first,              \* what the first of two calls returned
  s_iters,              \* history: iterations of the loop in this call
  \* ---- translate_epub.py translate_toc_entries(): one call
  toc_pc,               \* "idle" | "batch" | "returned" | "raised"
  chapters,             \* argument: the entries, each with title and src
  toc_i,                \* loop variable i: index of the batch's first entry
  translated_chapters,  \* local, and the value returned
  toc_lines,            \* history: per batch, the lines of the response
  \* ---- generate_epub.py extract_images_from_pdf_page() for one placeholder
  img_pc,               \* "idle" | "loop" | "returned" | "picked"
  page,                 \* the page: its rect and the images embedded in it
  img_index,            \* loop variable img_index
  extracted_images,     \* local, and the value returned
  counter,              \* local counter
  img_used,             \* the image create_chapter_html puts in the document
  \* ---- breakdown.py main() and analyze_pdf_structure()
  b_pc,                 \* "off" | "analyze" | "parse" | "open" | "dump"
  b_run,                \* runs of the tool started so far
  b_end,                \* how the last run ended
  num_retries,          \* config num_retries
  b_retry_count,        \* local retry_count of analyze_pdf_structure
  b_response,           \* local response: "None", or the kind of its text
  book_structure,       \* output/<title>/book_structure.json
  b_hist,               \* history of the current run: calls made, requests sent,
                        \* outcomes, sleeps, and the file at its start
  \* ---- generate_epub.py create_chapter_html(): the cropping of the PDF
  crop_pc,              \* "idle" | "range" | "insert" | "saved" | "raised"
  crop_chapter,         \* argument chapter: its start_page and end_page
  full_pdf,             \* len(full_pdf), the pages of the source PDF
  start_page,           \* local start_page
  end_page,             \* local end_page
  page_num,             \* loop variable page_num
  chapter_pdf,          \* the pages inserted so far, 0-based as in the loop
  \* ---- translate_epub.py translate_epub(): the update of content.opf
  opf_pc,               \* "idle" | "read" | "sub" | "write" | "written"
  content_opf,          \* the file content.opf of translated/
  content_opf_content,  \* local content_opf_content
  translated_book_title, \* local translated_book_title
  opf_original,         \* history: the file as it was read
  \* ---- generate_epub.py load_generation_progress(): one call
  load_pc,              \* "idle" | "entry" | "seed" | "returned" | "raised"
  progress_file,        \* generation_progress.json: absent, torn or a dict
  load_structure,       \* argument structure: [some |-> FALSE] is None
  load_progress,        \* local progress
  load_i,               \* loop variable i of enumerate(structure["chapters"], 1)
  load_result,          \* the value returned
  \* ---- translate_epub.py: the units of a first run, from toc.ncx on
  nav_pc,               \* "idle" | "parse" | "chapters" | "html" | "done"
  nav_points,           \* toc.ncx: the src of each navPoint, in order
  all_html_files,       \* the HTML files of the EPUB
  nav_chapters,         \* local chapters: the src of each entry
  non_chapter_html_files, \* local, and progress["translated_html_files"]
  nav_i,                \* loop variable i of the two unit loops
  nav_tree,             \* translated/: per file "orig" or "tr"
  nav_marked,           \* the units whose translated flag is set
  nav_sent              \* history: the file and the content of each model call

invVars == <<i_pc, max_retries, max_backoff, use_streaming, operation_name,
             retry_count, response, aggregated_response, i_error,
             i_calls, i_sleeps, i_outcomes, i_chunks, i_failed>>

gVars == <<g_pc, g_run, g_end, progress, g_retry, g_html, g_unused,
           g_ledger, g_dir, g_files, g_docs, g_images, g_opf, g_archive, g_hist>>

tVars == <<t_pc, t_run, t_end, t_cfg, t_progress, t_resuming, t_read,
           t_translated_html, t_previous_content, t_ledger,
           t_extract, t_dir, t_files, t_meta, t_archive, t_hist>>

sVars == <<s_pc, s_case, s_html_content, s_previous_content, s_max_retries,
           s_retry_count, s_result, s_first, s_iters>>

tocVars == <<toc_pc, chapters, toc_i, translated_chapters, toc_lines>>

imgVars == <<img_pc, page, img_index, extracted_images, counter, img_used>>

bVars == <<b_pc, b_run, b_end, num_retries, b_retry_count, b_response, book_structure, b_hist>>

cropVars == <<crop_pc, crop_chapter, full_pdf, start_page, end_page, page_num, chapter_pdf>>

opfVars == <<opf_pc, content_opf, content_opf_content, translated_book_title, opf_original>>

loadVars == <<load_pc, progress_file, load_structure, load_progress, load_i, load_result>>

\* the functions that are applied on their own
navVars == <<nav_pc, nav_points, all_html_files, nav_chapters, non_chapter_html_files,
             nav_i, nav_tree, nav_marked, nav_sent>>

fVars == <<cropVars, opfVars, loadVars, navVars>>

\* the components that are exercised on their own
uVars == <<sVars, tocVars, imgVars, bVars, fVars>>

\* all but the sanitizer, all but translate_toc_entries, all but the
\* extraction of images, all but the structure analysis
sanRest == <<prog, invVars, gVars, tVars, tocVars, imgVars, bVars, fVars>>

tocRest == <<prog, invVars, gVars, tVars, sVars, imgVars, bVars, fVars>>

imgRest == <<prog, invVars, gVars, tVars, sVars, tocVars, bVars, fVars>>

bRest == <<prog, invVars, gVars, tVars, sVars, tocVars, imgVars, fVars>>

\* all but the cropping, all but the update of content.opf, all but the
\* loading of the ledger
cropRest == <<prog, invVars, gVars, tVars, sVars, tocVars, imgVars, bVars, opfVars, loadVars, navVars>>

opfRest == <<prog, invVars, gVars, tVars, sVars, tocVars, imgVars, bVars, cropVars, loadVars, navVars>>

loadRest == <<prog, invVars, gVars, tVars, sVars, tocVars, imgVars, bVars, cropVars, opfVars, navVars>>

navRest == <<prog, invVars, gVars, tVars, sVars, tocVars, imgVars, bVars, cropVars, opfVars, loadVars>>

vars == <<prog, invVars, gVars, tVars, uVars>>

(***************************************************************************)
(* Values.                                                                 *)
(***************************************************************************)
NoneResponse == [some |-> FALSE, text |-> <<>>]

TextResponse(t) == [some |-> TRUE, text |-> t]

NoError == [type |-> "none", op |-> "", attempts |-> 0]

\* ValueError(f"Failed to execute {operation_name} after {max_retries} attempts")
ExhaustionError(op, n) == [type |-> "ValueError: Failed to execute", op |-> op, attempts |-> n]

\* a chunk of the stream: chunk.text is None, or a (possibly empty) text
NoTextChunk == [none |-> TRUE, text |-> <<>>]

TextChunk(t) == [none |-> FALSE, text |-> t]

\* the chunks the client may deliver, by tool
Chunks(p) ==
  IF p = "invoker"
  THEN {NoTextChunk, TextChunk(<<>>), TextChunk(<<"a">>), TextChunk(<<"b">>)}
  ELSE {TextChunk(<<"<html>", "x", "</html>">>), TextChunk(<<"<html>", "y", "</html>">>),
        TextChunk(<<"x">>)}

\* min(2 ** retry_count + (0.1 * retry_count), max_backoff), in tenths
BackoffMutCap(rc, mb) == 10 * Pow2(rc) + rc

Backoff(rc, mb) == Min(10 * Pow2(rc) + rc, mb)

(***************************************************************************)
(* generate_content_with_retry, one action per step of the loop.           *)
(***************************************************************************)
LoopCond == ~response.some /\ retry_count < max_retries

\* the sleep at the top of the try block
SleepsAfterMutFirst == Append(i_sleeps, Backoff(retry_count, max_backoff))

SleepsAfter == IF retry_count > 0
               THEN Append(i_sleeps, Backoff(retry_count, max_backoff))
               ELSE i_sleeps

\* loop head, streaming: sleep, open the stream with a fresh AggregatedResponse
InvStartStreamMutKeep ==
  /\ i_pc = "loop" /\ LoopCond /\ use_streaming
  /\ i_sleeps' = SleepsAfter
  /\ i_calls' = i_calls + 1
  /\ aggregated_response' = aggregated_response
  /\ i_chunks' = <<>>
  /\ UNCHANGED i_failed
  /\ i_pc' = "stream"
  /\ UNCHANGED <<prog, uVars, gVars, tVars, max_retries, max_backoff, use_streaming, operation_name,
                 retry_count, response, i_error, i_outcomes>>

InvStartStream ==
  /\ i_pc = "loop" /\ LoopCond /\ use_streaming
  /\ i_sleeps' = SleepsAfter
  /\ i_calls' = i_calls + 1
  /\ aggregated_response' = <<>>
  /\ i_chunks' = <<>>
  /\ UNCHANGED i_failed
  /\ i_pc' = "stream"
  /\ UNCHANGED <<prog, uVars, gVars, tVars, max_retries, max_backoff, use_streaming, operation_name,
                 retry_count, response, i_error, i_outcomes>>

\* for chunk in stream_response: if chunk.text: aggregated_response.text += chunk.text
InvStreamChunk ==
  /\ i_pc = "stream"
  /\ Len(i_chunks) < MaxChunks
  /\ \E c \in Chunks(prog) :
       /\ i_chunks' = Append(i_chunks, c)
       /\ UNCHANGED i_failed
       /\ aggregated_response' =
            IF ~c.none /\ c.text # <<>>
            THEN aggregated_response \o c.text
            ELSE aggregated_response
  /\ UNCHANGED <<prog, uVars, gVars, tVars, i_pc, max_retries, max_backoff, use_streaming, operation_name,
                 retry_count, response, i_error, i_calls, i_sleeps, i_outcomes>>

\* the stream ends: response = aggregated_response
InvStreamEnd ==
  /\ i_pc = "stream"
  /\ response' = TextResponse(aggregated_response)
  /\ i_outcomes' = Append(i_outcomes, "ok")
  /\ i_pc' = "loop"
  /\ UNCHANGED <<prog, uVars, gVars, tVars, max_retries, max_backoff, use_streaming, operation_name,
                 retry_count, aggregated_response, i_error, i_calls, i_sleeps, i_chunks, i_failed>>

\* an exception while opening or reading the stream: except ...: retry_count += 1; continue
InvStreamFailMutPropagate ==
  /\ i_pc = "stream"
  /\ i_error' = [type |-> "httpx.ReadTimeout", op |-> "", attempts |-> 0]
  /\ i_outcomes' = Append(i_outcomes, "exc")
  /\ i_pc' = "raised"
  /\ UNCHANGED <<prog, uVars, gVars, tVars, max_retries, max_backoff, use_streaming, operation_name,
                 retry_count, response, aggregated_response, i_calls, i_sleeps, i_chunks, i_failed>>

InvStreamFail ==
  /\ i_pc = "stream"
  /\ retry_count' = retry_count + 1
  /\ i_outcomes' = Append(i_outcomes, "exc")
  /\ i_pc' = "loop"
  /\ UNCHANGED <<prog, uVars, gVars, tVars, max_retries, max_backoff, use_streaming, operation_name,
                 response, aggregated_response, i_error, i_calls, i_sleeps, i_chunks>>
  /\ i_failed' = Append(i_failed, i_chunks)

\* loop head, non-streaming: sleep, client.models.generate_content returns r
\* (None counts as a failed attempt) or raises
InvCall ==
  /\ i_pc = "loop" /\ LoopCond /\ ~use_streaming
  /\ i_sleeps' = SleepsAfter
  /\ i_calls' = i_calls + 1
  /\ \E out \in {"exc", "null", "ok"} :
       /\ i_outcomes' = Append(i_outcomes, out)
       /\ IF out = "ok"
          THEN \E t \in {<<"a">>, <<"b">>} :
                 /\ response' = TextResponse(t)
                 /\ retry_count' = retry_count
          ELSE /\ response' = NoneResponse
               /\ retry_count' = retry_count + 1
  /\ UNCHANGED <<prog, uVars, gVars, tVars, i_pc, max_retries, max_backoff, use_streaming, operation_name,
                 aggregated_response, i_error, i_chunks, i_failed>>

\* the loop ends: raise ValueError when response is None, else return response
InvExit ==
  /\ i_pc = "loop" /\ ~LoopCond
  /\ IF response.some
     THEN i_pc' = "returned" /\ i_error' = i_error
     ELSE i_pc' = "raised" /\ i_error' = ExhaustionError(operation_name, max_retries)
  /\ UNCHANGED <<prog, uVars, gVars, tVars, max_retries, max_backoff, use_streaming, operation_name,
                 retry_count, response, aggregated_response, i_calls, i_sleeps,
                 i_outcomes, i_chunks, i_failed>>

InvokerStep ==
  \/ InvStartStream
  \/ InvStreamChunk
  \/ InvStreamEnd
  \/ InvStreamFail
  \/ InvCall
  \/ InvExit

\* the invoker's locals at the call
InvEntry(mr, mb, st, op) ==
  /\ i_pc' = "loop"
  /\ max_retries' = mr
  /\ max_backoff' = mb
  /\ use_streaming' = st
  /\ operation_name' = op
  /\ retry_count' = 0
  /\ response' = NoneResponse
  /\ aggregated_response' = <<>>
  /\ i_error' = NoError
  /\ i_calls' = 0
  /\ i_sleeps' = <<>>
  /\ i_outcomes' = <<>>
  /\ i_chunks' = <<>>
  /\ i_failed' = <<>>

InvIdle ==
  /\ i_pc = "idle"
  /\ max_retries = 0
  /\ max_backoff = 0
  /\ use_streaming = TRUE
  /\ operation_name = ""
  /\ retry_count = 0
  /\ response = NoneResponse
  /\ aggregated_response = <<>>
  /\ i_error = NoError
  /\ i_calls = 0
  /\ i_sleeps = <<>>
  /\ i_outcomes = <<>>
  /\ i_chunks = <<>>
  /\ i_failed = <<>>

\* the call is over: the invoker's locals are gone
InvLeave ==
  /\ i_pc' = "idle"
  /\ max_retries' = 0
  /\ max_backoff' = 0
  /\ use_streaming' = TRUE
  /\ operation_name' = ""
  /\ retry_count' = 0
  /\ response' = NoneResponse
  /\ aggregated_response' = <<>>
  /\ i_error' = NoError
  /\ i_calls' = 0
  /\ i_sleeps' = <<>>
  /\ i_outcomes' = <<>>
  /\ i_chunks' = <<>>
  /\ i_failed' = <<>>

(***************************************************************************)
(* generate_epub.py: values.                                               *)
(***************************************************************************)
ChapterIds == 1..NumChapters

DocIds == 0..NumChapters

Off == [s |-> "off", k |-> "", i |-> 0]

At(s, k, i) == [s |-> s, k |-> k, i |-> i]

\* names of the files of the working tree: <<name, chapter, counter>>
Entry(name) == <<name, 0, 0>>

DocEntry(d) == <<"text/*.html", d, 0>>

TempPdf(d) == <<"text/temp_*.pdf", d, 0>>

ImageEntry(i, c) == <<"images/chapter_*_img_*", i, c>>

AbsentDoc == [state |-> "absent", ver |-> 0, html |-> FALSE, refs |-> {}]

TornDoc == [state |-> "torn", ver |-> 0, html |-> FALSE, refs |-> {}]

WrittenDoc(ver, html, refs) == [state |-> "ok", ver |-> ver, html |-> html, refs |-> refs]

\* response.text of a model call: None, or a text that may be wrapped in a
\* code fence, may hold an <html> element, and holds image placeholders,
\* each naming a page with so many qualifying images
NoText == [none |-> TRUE, fenced |-> FALSE, html |-> FALSE, placeholders |-> <<>>]

PlaceholderInputs == {<<>>, <<MaxPageImages>>}

GenResponses ==
  {NoText} \cup
  {[none |-> FALSE, fenced |-> f, html |-> h, placeholders |-> p] :
     f \in BOOLEAN, h \in BOOLEAN, p \in PlaceholderInputs}

\* the stages of main(), in the order of its text
Stages == <<"mimetype", "container_xml", "cover", "cover_html", "stylesheet",
            "toc_ncx", "toc_html", "chapters", "content_opf", "cleanup", "epub">>

StageIndex(s) == CHOOSE j \in 1..Len(Stages) : Stages[j] = s

StageAfterMutSwap(s) ==
  CASE s = "toc_html" -> "content_opf"
    [] s = "content_opf" -> "chapters"
    [] s = "chapters" -> "cleanup"
    [] OTHER -> Stages[StageIndex(s) + 1]

StageAfter(s) == Stages[StageIndex(s) + 1]

\* the ledger flag of a stage
FlagOf(s) ==
  CASE s = "mimetype" -> "mimetype_created"
    [] s = "container_xml" -> "container_xml_created"
    [] s = "cover" -> "cover_extracted"
    [] s = "cover_html" -> "cover_html_created"
    [] s = "stylesheet" -> "stylesheet_created"
    [] s = "toc_ncx" -> "toc_ncx_created"
    [] s = "toc_html" -> "toc_html_created"
    [] s = "content_opf" -> "content_opf_created"

\* the file a stage writes
FileOf(s) ==
  CASE s = "mimetype" -> Entry("mimetype")
    [] s = "container_xml" -> Entry("META-INF/container.xml")
    [] s = "cover" -> Entry("cover.jpeg")
    [] s = "cover_html" -> Entry("titlepage.xhtml")
    [] s = "stylesheet" -> Entry("stylesheet.css")
    [] s = "toc_ncx" -> Entry("toc.ncx")
    [] s = "toc_html" -> DocEntry(0)
    [] s = "content_opf" -> Entry("content.opf")

PlainStages == {"mimetype", "container_xml", "cover", "cover_html", "stylesheet", "toc_ncx"}

FlaggedStages == PlainStages \cup {"toc_html", "content_opf"}

\* the first position of a stage
Enter(s) ==
  CASE s = "chapters" -> At("chapters", "ensure", 0)
    [] s = "cleanup" -> At("cleanup", "scan", 0)
    [] s = "epub" -> At("epub", "zip", 0)
    [] OTHER -> At(s, "check", 0)

\* the position after a ledger save
AfterDump(pc) ==
  IF pc.s = "chapters"
  THEN IF pc.i < NumChapters
       THEN At("chapters", "check", pc.i + 1)
       ELSE Enter(StageAfter("chapters"))
  ELSE Enter(StageAfter(pc.s))

\* load_generation_progress: the default state, seeded with the structure
DefaultProgress(structure) ==
  [flags |-> {},
   has_chapters |-> structure,
   chapters |-> [i \in ChapterIds |-> FALSE],
   last_processed_chapter_index |-> -1,
   chapter_titles |-> 0]

AbsentLedger == [state |-> "absent", data |-> DefaultProgress(FALSE)]

TornLedger == [state |-> "torn", data |-> DefaultProgress(FALSE)]

SavedLedger(p) == [state |-> "ok", data |-> p]

\* load_generation_progress: an existing file is returned as it is
LoadGenerationProgressMutFresh(file, structure) == DefaultProgress(structure)

LoadGenerationProgress(file, structure) ==
  IF file.state # "absent" THEN file.data ELSE DefaultProgress(structure)

\* clean_html_response of generate_epub.py: None stays None, the fence
\* markers are removed, the <html> element is kept when there is one
CleanHtmlResponse(r) ==
  IF r.none THEN NoText ELSE [r EXCEPT !.fenced = FALSE]

\* the placeholder loop of create_chapter_html: the images written to
\* images/ and the images the document refers to
RECURSIVE ProcessPlaceholders(_, _, _)
ProcessPlaceholders(i, ps, image_counter) ==
  IF ps = <<>>
  THEN [images |-> {}, refs |-> {}]
  ELSE LET q == Head(ps)
           extracted == {ImageEntry(i, c) : c \in image_counter..(image_counter + q - 1)}
           rest == ProcessPlaceholders(i, Tail(ps),
                                       IF q > 0 THEN image_counter + 1 ELSE image_counter)
       IN  [images |-> extracted \cup rest.images,
            refs |-> (IF q > 0 THEN {ImageEntry(i, image_counter)} ELSE {}) \cup rest.refs]

\* clean_unused_images: the names referenced by the documents and the cover page
ReferencedImagesMutCoverOnly(docs) == {Entry("cover.jpeg")}

ReferencedImages(docs) ==
  UNION {docs[d].refs : d \in {e \in DocIds : docs[e].state = "ok"}} \cup {Entry("cover.jpeg")}

\* the files of epub/, as os.walk finds them
TreeFiles(files, docs, images) ==
  files \cup {DocEntry(d) : d \in {e \in DocIds : docs[e].state # "absent"}} \cup images

NoArchive == [built |-> FALSE, stored |-> {}, deflated |-> {}]

\* the check of the chapter loop: the cursor first, then the chapter's record
ChapterProcessedMutNoCursor(p, i) == p.has_chapters /\ p.chapters[i]

ChapterProcessedMutNoFlag(p, i) == i <= p.last_processed_chapter_index

ChapterProcessed(p, i) ==
  \/ i <= p.last_processed_chapter_index
  \/ p.has_chapters /\ p.chapters[i]

InitHist ==
  [log |-> <<>>, called |-> FALSE, calls |-> 0, written |-> {}, resuming |-> FALSE,
   gen |-> [i \in ChapterIds |-> 0],
   decided |-> [i \in ChapterIds |-> "none"],
   loaded |-> DefaultProgress(FALSE),
   prev |-> [how |-> "none", unit |-> 0, docs |-> [d \in DocIds |-> AbsentDoc],
             ledger |-> AbsentLedger, archive |-> NoArchive]]

GIdle ==
  /\ g_pc = Off
  /\ g_run = 0
  /\ g_end = [how |-> "none", unit |-> 0]
  /\ progress = DefaultProgress(FALSE)
  /\ g_retry = 0
  /\ g_html = NoText
  /\ g_unused = {}
  /\ g_ledger = AbsentLedger
  /\ g_dir = FALSE
  /\ g_files = {}
  /\ g_docs = [d \in DocIds |-> AbsentDoc]
  /\ g_images = {}
  /\ g_opf = {}
  /\ g_archive = NoArchive
  /\ g_hist = InitHist

(***************************************************************************)
(* translate_epub.py: values.  Chapters and additional HTML files are      *)
(* indexed from 0 as in the source; tokens stand for pieces of text.        *)
(***************************************************************************)
ChapterIx == 0..(NumChapters - 1)

ExtraIx == 0..(NumExtra - 1)

Units == ({"chapter"} \X ChapterIx) \cup ({"html"} \X ExtraIx)

NoUnit == <<"none", 0>>

\* contents of an HTML file of translated/: src is what the model was given
\* to produce it
AbsentUnit == [state |-> "absent", src |-> ""]

OrigUnit == [state |-> "orig", src |-> ""]

TornUnit == [state |-> "torn", src |-> ""]

TranslatedUnit(read) == [state |-> "tr", src |-> read.state]

\* config.get("max_backoff_seconds", 30), in tenths of a second
DefaultMaxBackoff == 30 * 10

\* the dict load_translation_progress returns when there is no file
TDefaultProgress ==
  [book_title_translated |-> FALSE,
   toc_translated |-> FALSE,
   content_opf_updated |-> FALSE,
   translated_chapters |-> <<>>,
   translated_html_files |-> <<>>,
   translated_book_title |-> "",
   last_processed_chapter_index |-> -1,
   last_processed_html_index |-> -1]

TAbsentLedger == [state |-> "absent", data |-> TDefaultProgress]

TTornLedger == [state |-> "torn", data |-> TDefaultProgress]

TSavedLedger(p) == [state |-> "ok", data |-> p]

\* load_translation_progress: the file's content, or the default dict
LoadTranslationProgress(file) ==
  IF file.state = "ok" THEN file.data ELSE TDefaultProgress

\* the "translated" flags of the units of one kind, and the cursor
UnitList(p, kind) ==
  IF kind = "chapter" THEN p.translated_chapters ELSE p.translated_html_files

UnitCursor(p, kind) ==
  IF kind = "chapter" THEN p.last_processed_chapter_index
  ELSE p.last_processed_html_index

\* progress[...][i].get("translated", False)
TMarked(p, u) ==
  /\ u[2] + 1 <= Len(UnitList(p, u[1]))
  /\ UnitList(p, u[1])[u[2] + 1]

\* progress[...][i]["translated"] = True; progress["last_processed_..._index"] = i
MarkUnitMutBackward(p, u) ==
  IF u[1] = "chapter"
  THEN [p EXCEPT !.translated_chapters[u[2] + 1] = TRUE,
                 !.last_processed_chapter_index = 1 - u[2]]
  ELSE [p EXCEPT !.translated_html_files[u[2] + 1] = TRUE,
                 !.last_processed_html_index = 1 - u[2]]

MarkUnit(p, u) ==
  IF u[1] = "chapter"
  THEN [p EXCEPT !.translated_chapters[u[2] + 1] = TRUE,
                 !.last_processed_chapter_index = u[2]]
  ELSE [p EXCEPT !.translated_html_files[u[2] + 1] = TRUE,
                 !.last_processed_html_index = u[2]]

\* the sanitizer of translate_epub.py: code fences are removed, then the
\* first <html>..</html>, else <body>..</body>, else <div>..</div> is kept;
\* without any of them it raises ValueError
Unfenced(t) == SelectSeq(t, LAMBDA x : x \notin {"[fence html]", "[fence]"})

Matches(t, open, close) ==
  {ab \in (1..Len(t)) \X (1..Len(t)) :
     /\ ab[1] < ab[2] /\ t[ab[1]] = open /\ t[ab[2]] = close
     /\ \A a \in 1..(ab[1] - 1) : ~(t[a] = open /\ \E b \in (a + 1)..Len(t) : t[b] = close)
     /\ \A b \in (ab[1] + 1)..(ab[2] - 1) : t[b] # close}

FirstMatch(t, open, close) ==
  LET ab == CHOOSE x \in Matches(t, open, close) : TRUE
  IN  SubSeq(t, ab[1], ab[2])

TCleanHtmlResponse(text) ==
  LET t == Unfenced(text) IN
  IF Matches(t, "<html>", "</html>") # {}
  THEN [ok |-> TRUE, html |-> FirstMatch(t, "<html>", "</html>")]
  ELSE IF Matches(t, "<body>", "</body>") # {}
  THEN [ok |-> TRUE, html |-> FirstMatch(t, "<body>", "</body>")]
  ELSE IF Matches(t, "<div>", "</div>") # {}
  THEN [ok |-> TRUE, html |-> FirstMatch(t, "<div>", "</div>")]
  ELSE [ok |-> FALSE, html |-> <<>>]

TNoArchive == [built |-> FALSE, name |-> "", stored |-> {}, deflated |-> {}]

\* the files os.walk finds under translated/
TTreeFiles(files, meta) ==
  {u \in Units : files[u].state # "absent"} \cup
  {<<n, 0>> : n \in {m \in {"toc.ncx", "content.opf"} :
                       (IF m = "toc.ncx" THEN meta.ncx ELSE meta.opf) # "absent"}}

\* the history of a run: the calls made, the ledger and the unit's file at
\* the last call, for each unit call the context that was supplied and the
\* text of the unit translated last before it, how the run before ended,
\* and the text of the unit translated last, in this run or an earlier one
TInitHist ==
  [calls |-> <<>>,
   at |-> [ledger |-> TAbsentLedger, content |-> AbsentUnit],
   ctx |-> <<>>,
   last |-> NoTextChunk,
   prev |-> [how |-> "none", unit |-> NoUnit, ledger |-> TAbsentLedger]]

\* config previous_content_limit when it is set, in tokens of the text
ContextLimit == 2

\* text[:limit]
Truncate(text, limit) == SubSeq(text, 1, Min(limit, Len(text)))

\* translate_html_content 188-192: the context put into the prompt
Context(previous, limit) ==
  IF previous.none \/ previous.text = <<>> \/ ~(limit > 0)
  THEN NoTextChunk
  ELSE TextChunk(Truncate(previous.text, limit))

\* translate_epub 646-650 and 697-701: what is kept for the next call
KeptContent(translated, limit) ==
  IF limit > 0 THEN TextChunk(Truncate(translated, limit)) ELSE NoTextChunk

\* the inputs: whether config.yaml has target_title, and which chapters of
\* toc.ncx have no file in the EPUB
ConfigInputs ==
  {[target_title |-> b, missing |-> m, previous_content_limit |-> n] :
     b \in BOOLEAN, m \in {{}, {0}}, n \in {0, ContextLimit}}

NoConfig == [target_title |-> FALSE, missing |-> {}, previous_content_limit |-> 0]

TIdle(cfg) ==
  /\ t_pc = Off
  /\ t_run = 0
  /\ t_end = [how |-> "none", unit |-> NoUnit]
  /\ t_cfg = cfg
  /\ t_progress = TDefaultProgress
  /\ t_resuming = FALSE
  /\ t_read = AbsentUnit
  /\ t_translated_html = <<>>
  /\ t_previous_content = NoTextChunk
  /\ t_ledger = TAbsentLedger
  /\ t_extract = FALSE
  /\ t_dir = FALSE
  /\ t_files = [u \in Units |-> AbsentUnit]
  /\ t_meta = [ncx |-> "absent", opf |-> "absent", mimetype |-> FALSE]
  /\ t_archive = TNoArchive
  /\ t_hist = TInitHist

(***************************************************************************)
(* utils/html_utils.py clean_html_response().  A text is a sequence of     *)
(* tokens: tags, "x" for other text, "[nl]" for white space, the fence     *)
(* tokens for ``` with a language tag or without one, and at the head      *)
(* "[json str]" / "[json html]" when the whole text is a JSON string or a  *)
(* JSON object with an "html" member holding the rest.                     *)
(***************************************************************************)
MaxDoc == 5
MaxText == 3
DefaultMaxRetries == 3

OpenTags == {"<html>", "<body>", "<div>"}

CloseOf(tag) ==
  CASE tag = "<html>" -> "</html>" [] tag = "<body>" -> "</body>" [] tag = "<div>" -> "</div>"

SanTokens == OpenTags \cup {CloseOf(tag) : tag \in OpenTags} \cup {"x", "[nl]", "[fence]"}

RECURSIVE TextsUpTo(_, _)
TextsUpTo(tokens, n) ==
  IF n = 0 THEN {<<>>}
  ELSE LET shorter == TextsUpTo(tokens, n - 1)
       IN  shorter \cup {Append(t, x) : t \in {s \in shorter : Len(s) = n - 1}, x \in tokens}

\* json.loads and lines 42-47: a JSON string, or the "html" member of a JSON
\* object, replaces the text; any other text is left as it is
JsonLoads(t) ==
  IF t # <<>> /\ Head(t) \in {"[json str]", "[json html]"} THEN Tail(t) ELSE t

\* re.sub(r"```<lang>\s*", "", t): the fences of `kinds` go, each with the
\* white space after it
RECURSIVE SubFences(_, _, _)
SubFences(t, kinds, after) ==
  IF t = <<>> THEN <<>>
  ELSE IF Head(t) \in kinds THEN SubFences(Tail(t), kinds, TRUE)
  ELSE IF after /\ Head(t) = "[nl]" THEN SubFences(Tail(t), kinds, TRUE)
  ELSE <<Head(t)>> \o SubFences(Tail(t), kinds, FALSE)

\* re.sub(r"```\s*$", "", t): a bare fence with only white space behind it
SubTrailingFence(t) ==
  LET at == {k \in 1..Len(t) : t[k] = "[fence]" /\ \A j \in (k + 1)..Len(t) : t[j] = "[nl]"}
  IN  IF at = {} THEN t ELSE SubSeq(t, 1, (CHOOSE k \in at : TRUE) - 1)

\* lines 52-54
StripFences(t) ==
  SubFences(SubTrailingFence(SubFences(t, {"[fence html]"}, FALSE)),
            {"[fence]", "[fence html]", "[fence xml]"}, FALSE)

\* re.sub(r"\n{2,}", "\n", t)
RECURSIVE CollapseNewlines(_)
CollapseNewlines(t) ==
  IF Len(t) < 2 THEN t
  ELSE IF t[1] = "[nl]" /\ t[2] = "[nl]" THEN CollapseNewlines(Tail(t))
  ELSE <<Head(t)>> \o CollapseNewlines(Tail(t))

\* str.strip()
RECURSIVE Strip(_)
Strip(t) ==
  IF t = <<>> THEN t
  ELSE IF Head(t) = "[nl]" THEN Strip(Tail(t))
  ELSE IF t[Len(t)] = "[nl]" THEN Strip(SubSeq(t, 1, Len(t) - 1))
  ELSE t

\* lines 58-72: re.search of the three patterns in their order; each pattern
\* runs from the first opening tag that has a closing tag behind it to the
\* first such closing tag
SearchElementMutDivFirst(t) ==
  IF Matches(t, "<div>", "</div>") # {}
  THEN TextChunk(FirstMatch(t, "<div>", "</div>"))
  ELSE IF Matches(t, "<html>", "</html>") # {}
  THEN TextChunk(FirstMatch(t, "<html>", "</html>"))
  ELSE NoTextChunk

SearchElement(t) ==
  IF Matches(t, "<html>", "</html>") # {}
  THEN TextChunk(FirstMatch(t, "<html>", "</html>"))
  ELSE IF Matches(t, "<body>", "</body>") # {}
  THEN TextChunk(FirstMatch(t, "<body>", "</body>"))
  ELSE IF Matches(t, "<div>", "</div>") # {}
  THEN TextChunk(FirstMatch(t, "<div>", "</div>"))
  ELSE NoTextChunk

\* lines 23-36: the text the loop starts from
StitchedMutNewOnly(html_content, previous_content) == html_content

Stitched(html_content, previous_content) ==
  IF previous_content.none \/ previous_content.text = <<>> THEN html_content
  ELSE IF Matches(html_content, "<html>", "</html>") # {} THEN html_content
  ELSE previous_content.text \o html_content

\* lines 98, 110 and 121: this pass is the one that raises instead of going
\* round again
LastPassMutLate(retry, maxr) == ~(retry < maxr)

LastPass(retry, maxr) == ~(retry < maxr - 1)

\* lines 40-127: one pass of the loop body over html_content with the given
\* retry_count: what it returns, or that it goes round again, or what it raises
Iteration(html_content, retry, maxr) ==
  LET text == StripFences(JsonLoads(html_content))
      html_match == SearchElement(text)
      last == LastPass(retry, maxr)
      again(t) == [kind |-> "continue", content |-> t, cause |-> ""]
      fail(t, why) == [kind |-> "ValueError", content |-> t, cause |-> why]
  IN  IF html_match.none
      THEN IF \E i \in 1..Len(text) : text[i] \in OpenTags
           THEN [kind |-> "partial", content |-> text, cause |-> ""]
           ELSE IF last THEN fail(CollapseNewlines(text), "Could not find valid HTML content in response")
                ELSE again(CollapseNewlines(text))
      ELSE IF Strip(html_match.text) = <<>>
           THEN IF last THEN fail(<<>>, "Cleaned HTML content is empty") ELSE again(<<>>)
           ELSE [kind |-> "text", content |-> Strip(html_match.text), cause |-> ""]

\* the whole call on a text: lines 18-19 and the loop of lines 38-127;
\* falling out of the loop returns None
RECURSIVE CleanLoop(_, _, _)
CleanLoop(html_content, retry, maxr) ==
  IF ~(retry < maxr) THEN [kind |-> "None", content |-> <<>>, cause |-> ""]
  ELSE LET r == Iteration(html_content, retry, maxr)
       IN  IF r.kind = "continue" THEN CleanLoop(r.content, retry + 1, maxr) ELSE r

\* well-formed documents: one root element with its closing tag at the end,
\* html only as the root, body as the root or directly inside html
RECURSIVE Nested(_, _)
Nested(t, open) ==
  IF t = <<>> THEN open = <<>>
  ELSE IF open = <<>> THEN FALSE
  ELSE IF Head(t) = "x" THEN Nested(Tail(t), open)
  ELSE IF Head(t) = "<div>" THEN Nested(Tail(t), <<"<div>">> \o open)
  ELSE IF Head(t) = "<body>" THEN open = <<"<html>">> /\ Nested(Tail(t), <<"<body>">> \o open)
  ELSE Head(t) = CloseOf(Head(open)) /\ Nested(Tail(t), Tail(open))

Documents(n) ==
  {t \in TextsUpTo(SanTokens \ {"[nl]", "[fence]"}, n) :
     /\ Len(t) >= 2 /\ Head(t) \in OpenTags
     /\ Nested(Tail(t), <<Head(t)>>)}

\* what is cleaned: a document inside a fenced block, a document cut in two
\* pieces for two calls, or any text with any max_retries
Wrapped(D, fence) == <<fence, "[nl]">> \o D \o <<"[nl]", "[fence]">>

SanCase(kind, D, first, second, previous, maxr) ==
  [kind |-> kind, D |-> D, first |-> first, second |-> second,
   previous_content |-> previous, max_retries |-> maxr]

NoResult == [kind |-> "pending", content |-> <<>>, cause |-> ""]

NoCase == SanCase("none", <<>>, <<>>, <<>>, NoTextChunk, 0)

SIdle ==
  /\ s_pc = "idle"
  /\ s_case = NoCase
  /\ s_html_content = NoTextChunk
  /\ s_previous_content = NoTextChunk
  /\ s_max_retries = 0
  /\ s_retry_count = 0
  /\ s_result = NoResult
  /\ s_first = NoResult
  /\ s_iters = 0

(***************************************************************************)
(* translate_epub.py translate_toc_entries().  A title is a value; a line  *)
(* of a response is its text with or without a leading "N. ".              *)
(***************************************************************************)
BatchSize == 10
MaxEntries == 12

\* the entries extract_toc_from_ncx hands over: titles and sources by position
TocInput(n) == [j \in 1..n |-> [title |-> <<"title", j>>, src |-> <<"src", j>>]]

\* response.text.strip().split("\n"): at least one line, the only line of an
\* empty text being empty; k lines, numbered or not, the second one blank
\* when `blank`
ResponseLines(k, numbered, blank) ==
  [j \in 1..k |-> [number |-> IF numbered THEN j ELSE 0,
                   text |-> IF blank /\ j = 2 THEN <<>> ELSE <<"translated", j>>]]

ResponseInputs(size) ==
  {ResponseLines(k, nb, bl) : k \in 1..(size + 1), nb \in BOOLEAN, bl \in BOOLEAN}
    \cup {<<[number |-> 0, text |-> <<>>]>>}

\* re.sub(r"^\d+\.\s*", "", title).strip()
CleanTitle(line) == line.text

\* lines 340-356: the entry made for position j of the batch
TocEntryMutBlank(chapter, cleaned_titles, j) ==
  [title |-> IF j <= Len(cleaned_titles) THEN cleaned_titles[j] ELSE <<>>,
   src |-> chapter.src, original_title |-> chapter.title]

TocEntry(chapter, cleaned_titles, j) ==
  [title |-> IF j <= Len(cleaned_titles) THEN cleaned_titles[j] ELSE chapter.title,
   src |-> chapter.src, original_title |-> chapter.title]

TocIdle ==
  /\ toc_pc = "idle"
  /\ chapters = <<>>
  /\ toc_i = 0
  /\ translated_chapters = <<>>
  /\ toc_lines = <<>>

(***************************************************************************)
(* generate_epub.py extract_images_from_pdf_page() and the use of its      *)
(* result for one placeholder.  Sizes are in pixels, the page rect in      *)
(* points; an image is "jpeg", or of another format that Pillow converts   *)
(* ("png") or fails to convert ("bad").                                    *)
(***************************************************************************)
MinSide == 100

PageRect == [width |-> 600, height |-> 800]

ImageInputs ==
  [width : {99, 100, 540, 541}, height : {99, 100, 720, 721}, ext : {"jpeg", "png", "bad"}]

RECURSIVE ListsUpTo(_, _)
ListsUpTo(S, n) ==
  IF n = 0 THEN {<<>>}
  ELSE LET shorter == ListsUpTo(S, n - 1)
       IN  shorter \cup {Append(t, x) : t \in {l \in shorter : Len(l) = n - 1}, x \in S}

\* lines 294 and 300: the two tests that skip an image; 0.9 * side is
\* compared in tenths
SkippedMutAnd(image, rect) ==
  \/ image.width < MinSide /\ image.height < MinSide
  \/ 10 * image.width > 9 * rect.width /\ 10 * image.height > 9 * rect.height

Skipped(image, rect) ==
  \/ image.width < MinSide \/ image.height < MinSide
  \/ 10 * image.width > 9 * rect.width /\ 10 * image.height > 9 * rect.height

NoImage == [filename |-> <<>>, width |-> 0, height |-> 0]

ImgIdle ==
  /\ img_pc = "idle"
  /\ page = [rect |-> PageRect, image_list |-> <<>>]
  /\ img_index = 0
  /\ extracted_images = <<>>
  /\ counter = 0
  /\ img_used = NoImage

(***************************************************************************)
(* breakdown.py.  book_structure.json is absent, torn or holds the         *)
(* structure some response described; the text of a response is JSON for   *)
(* a structure, or no JSON at all.                                         *)
(***************************************************************************)
AbsentStructure == [state |-> "absent", structure |-> ""]

StructureInputs == {"structure A", "structure B"}

\* lines 173-184: the request is built once, before the loop
AnalysisRequest == [model |-> "model", contents |-> <<"prompt", "input.pdf">>]

BInitHist(start) ==
  [calls |-> 0, start |-> start, requests |-> <<>>, outcomes |-> <<>>, sleeps |-> <<>>]

BIdle ==
  /\ b_pc = "off"
  /\ b_run = 0
  /\ b_end = "none"
  /\ num_retries = 0
  /\ b_retry_count = 0
  /\ b_response = "None"
  /\ book_structure = AbsentStructure
  /\ b_hist = BInitHist(AbsentStructure)

(***************************************************************************)
(* generate_epub.py create_chapter_html(), lines 517-537: the pages of the *)
(* source PDF that are put into the chapter's PDF.                         *)
(***************************************************************************)
MaxPages == 6
Margin == 3

\* start_page = max(1, chapter["start_page"] - 3)
StartPageMutNoClamp(ch) == ch.start_page - Margin

StartPage(ch) == Max(1, ch.start_page - Margin)

\* end_page = min(chapter["end_page"] + 3, get_pdf_page_count(pdf_path))
EndPage(ch, count) == Min(ch.end_page + Margin, count)

NoChapter == [start_page |-> 0, end_page |-> 0]

CropIdle ==
  /\ crop_pc = "idle"
  /\ crop_chapter = NoChapter
  /\ full_pdf = 0
  /\ start_page = 0
  /\ end_page = 0
  /\ page_num = 0
  /\ chapter_pdf = <<>>

(***************************************************************************)
(* translate_epub.py translate_epub(), lines 580-599.  The text of         *)
(* content.opf is a sequence of tokens: the tags of the title element, "x" *)
(* for a title's text, "T" for the translated title, "m" for any other     *)
(* text and "[nl]" for a line break.                                       *)
(***************************************************************************)
MaxOpf == 5

OpfTokens == {"<dc:title>", "</dc:title>", "x", "m", "[nl]"}

\* the match of r"<dc:title>.*?</dc:title>" that begins at position a: it
\* ends at the first closing tag behind a, and "." matches no line break
OpfMatchEnd(t, a) ==
  IF t[a] # "<dc:title>" THEN 0
  ELSE LET ends == {b \in (a + 1)..Len(t) :
                      /\ t[b] = "</dc:title>"
                      /\ \A j \in (a + 1)..(b - 1) : t[j] \notin {"</dc:title>", "[nl]"}}
       IN  IF ends = {} THEN 0 ELSE CHOOSE b \in ends : TRUE

\* re.sub(pattern, repl, text, count): every match from the left is
\* replaced when count is 0, else the first count matches
RECURSIVE ReSub(_, _, _, _)
ReSub(t, repl, a, count) ==
  IF a > Len(t) THEN <<>>
  ELSE IF OpfMatchEnd(t, a) = 0 THEN <<t[a]>> \o ReSub(t, repl, a + 1, count)
  ELSE IF count = 1 THEN repl \o SubSeq(t, OpfMatchEnd(t, a) + 1, Len(t))
  ELSE repl \o ReSub(t, repl, OpfMatchEnd(t, a) + 1, IF count = 0 THEN 0 ELSE count - 1)

\* lines 589-593: re.sub without a count
UpdateTitle(content, title) ==
  ReSub(content, <<"<dc:title>", title, "</dc:title>">>, 1, 0)

OpfIdle ==
  /\ opf_pc = "idle"
  /\ content_opf = <<>>
  /\ content_opf_content = <<>>
  /\ translated_book_title = ""
  /\ opf_original = <<>>

(***************************************************************************)
(* generate_epub.py load_generation_progress(), lines 83-115.  The ledger  *)
(* is the dict of the code: the stage flags, the cursor and, when there is *)
(* one, the list "chapters" of records with index, title and generated.    *)
(***************************************************************************)
MaxSeed == 3

StageFlags == {"cover_extracted", "cover_html_created", "stylesheet_created",
               "toc_ncx_created", "toc_html_created", "container_xml_created",
               "mimetype_created", "content_opf_created"}

NoStructure == [some |-> FALSE, chapters |-> <<>>]

SeedStructure(titles) == [some |-> TRUE, chapters |-> titles]

\* progress_file: absent, cut short by a kill, or holding a dict
AbsentFile == [state |-> "absent", data |-> <<>>]

TornFile == [state |-> "torn", data |-> <<>>]

SavedFile(d) == [state |-> "ok", data |-> d]

\* lines 90-103
InitialProgress ==
  [flags |-> [f \in StageFlags |-> FALSE],
   processed_chapters |-> <<>>,
   last_processed_chapter_index |-> -1,
   cover_image_filename |-> "",
   chapter_titles |-> <<>>,
   has_chapters |-> FALSE,
   chapters |-> <<>>]

\* lines 109-113, the record of the i-th chapter
ChapterRecordMutFromZero(i, title) == [index |-> i - 1, title |-> title, generated |-> FALSE]

ChapterRecord(i, title) == [index |-> i, title |-> title, generated |-> FALSE]

NoProgress == [flags |-> [f \in StageFlags |-> FALSE],
               processed_chapters |-> <<>>,
               last_processed_chapter_index |-> 0,
               cover_image_filename |-> "",
               chapter_titles |-> <<>>,
               has_chapters |-> FALSE,
               chapters |-> <<>>]

LoadIdle ==
  /\ load_pc = "idle"
  /\ progress_file = AbsentFile
  /\ load_structure = NoStructure
  /\ load_progress = NoProgress
  /\ load_i = 0
  /\ load_result = NoProgress

(***************************************************************************)
(* translate_epub.py: the entries of toc.ncx and the HTML files.           *)
(***************************************************************************)
MaxNav == 3

HtmlNames == {"a.html", "b.html", "c.html"}

\* the src attribute of a navPoint's content element: a file, perhaps with
\* a fragment; a navPoint may have no content element
NoSrc == [none |-> TRUE, file |-> "", fragment |-> ""]

Src(file, fragment) == [none |-> FALSE, file |-> file, fragment |-> fragment]

SrcInputs == {NoSrc, Src("a.html", ""), Src("b.html", ""), Src("a.html", "s2")}

\* Path(src).name keeps the fragment: it is the name of a file only when
\* the src has none
PathName(src) == <<src.file, src.fragment>>

\* rglob(Path(chapter_src).name) in translated/, the tree being a copy of
\* the EPUB's files
Found(src, files) == src.fragment = "" /\ src.file \in files

\* the orders in which rglob may list a set of files
Listings(files) ==
  {s \in [1..Cardinality(files) -> files] : \A f \in files : \E j \in DOMAIN s : s[j] = f}

NavIdle ==
  /\ nav_pc = "idle"
  /\ nav_points = <<>>
  /\ all_html_files = {}
  /\ nav_chapters = <<>>
  /\ non_chapter_html_files = <<>>
  /\ nav_i = 0
  /\ nav_tree = [f \in HtmlNames |-> "absent"]
  /\ nav_marked = {}
  /\ nav_sent = <<>>

FIdle == CropIdle /\ OpfIdle /\ LoadIdle /\ NavIdle

UIdle == SIdle /\ TocIdle /\ ImgIdle /\ BIdle /\ FIdle

(***************************************************************************)
(* generate_epub.py main(), one action per step.                           *)
(***************************************************************************)
Running == g_pc # Off

\* the chapter whose document is written and whose ledger save has not begun
\* at this position (0: none)
WrittenUnsaved(pc) ==
  IF pc.s = "chapters" /\ pc.k \in {"rmtemp", "mark"} THEN pc.i ELSE 0

\* the process ends: by completion, by an exception, or killed
EndRun(how) ==
  /\ g_pc' = Off
  /\ g_end' = [how |-> how, unit |-> IF how = "crash" THEN WrittenUnsaved(g_pc) ELSE 0]
  /\ progress' = DefaultProgress(FALSE)
  /\ g_retry' = 0
  /\ g_html' = NoText
  /\ g_unused' = {}

\* main() up to the first stage: resuming or not, the ledger is loaded (a
\* torn file makes json.load raise), then the directories are created
GStart ==
  /\ prog = "generate" /\ g_pc = Off /\ g_run < MaxRuns
  /\ g_run' = g_run + 1
  /\ g_hist' = [InitHist EXCEPT
                  !.resuming = g_dir /\ g_ledger.state # "absent",
                  !.loaded = IF g_ledger.state = "torn" THEN DefaultProgress(FALSE)
                             ELSE LoadGenerationProgress(g_ledger, ~(g_dir /\ g_ledger.state # "absent")),
                  !.prev = [how |-> g_end.how, unit |-> g_end.unit, docs |-> g_docs,
                            ledger |-> g_ledger, archive |-> g_archive]]
  /\ IF g_ledger.state = "torn"
     THEN /\ g_end' = [how |-> "raise", unit |-> 0]
          /\ UNCHANGED <<g_pc, progress, g_dir>>
     ELSE /\ progress' = LoadGenerationProgress(g_ledger, ~(g_dir /\ g_ledger.state # "absent"))
          /\ g_dir' = TRUE
          /\ g_pc' = Enter(Stages[1])
          /\ g_end' = [how |-> "running", unit |-> 0]
  /\ UNCHANGED <<prog, uVars, invVars, tVars, g_retry, g_html, g_unused, g_ledger, g_files,
                 g_docs, g_images, g_opf, g_archive>>

\* if progress[flag]: the stage is skipped
StageSkip ==
  /\ Running /\ g_pc.k = "check" /\ g_pc.s \in FlaggedStages
  /\ FlagOf(g_pc.s) \in progress.flags
  /\ g_pc' = Enter(StageAfter(g_pc.s))
  /\ UNCHANGED <<prog, uVars, invVars, tVars, g_run, g_end, progress, g_retry, g_html, g_unused,
                 g_ledger, g_dir, g_files, g_docs, g_images, g_opf, g_archive, g_hist>>

\* create_mimetype, create_container_xml, extract_cover_image,
\* create_cover_html, create_stylesheet, create_toc_ncx
StageCreateMutAlways ==
  /\ Running /\ g_pc.k = "check" /\ g_pc.s \in PlainStages
  /\ g_files' = g_files \cup {FileOf(g_pc.s)}
  /\ g_hist' = [g_hist EXCEPT !.log = Append(@, <<g_pc.s, 0>>),
                              !.written = @ \cup {FileOf(g_pc.s)}]
  /\ g_pc' = At(g_pc.s, "mark", 0)
  /\ UNCHANGED <<prog, uVars, invVars, tVars, g_run, g_end, progress, g_retry, g_html, g_unused,
                 g_ledger, g_dir, g_docs, g_images, g_opf, g_archive>>

StageCreate ==
  /\ Running /\ g_pc.k = "check" /\ g_pc.s \in PlainStages
  /\ FlagOf(g_pc.s) \notin progress.flags
  /\ g_files' = g_files \cup {FileOf(g_pc.s)}
  /\ g_hist' = [g_hist EXCEPT !.log = Append(@, <<g_pc.s, 0>>),
                              !.written = @ \cup {FileOf(g_pc.s)}]
  /\ g_pc' = At(g_pc.s, "mark", 0)
  /\ UNCHANGED <<prog, uVars, invVars, tVars, g_run, g_end, progress, g_retry, g_html, g_unused,
                 g_ledger, g_dir, g_docs, g_images, g_opf, g_archive>>

\* progress[flag] = True; save_generation_progress opens the file for writing
StageMark ==
  /\ Running /\ g_pc.k = "mark" /\ g_pc.s \in FlaggedStages
  /\ progress' = [progress EXCEPT !.flags = @ \cup {FlagOf(g_pc.s)}]
  /\ g_ledger' = TornLedger
  /\ g_pc' = At(g_pc.s, "dump", 0)
  /\ UNCHANGED <<prog, uVars, invVars, tVars, g_run, g_end, g_retry, g_html, g_unused,
                 g_dir, g_files, g_docs, g_images, g_opf, g_archive, g_hist>>

\* save_generation_progress: json.dump of the whole state
SaveDump ==
  /\ Running /\ g_pc.k = "dump"
  /\ g_ledger' = SavedLedger(progress)
  /\ g_pc' = AfterDump(g_pc)
  /\ UNCHANGED <<prog, uVars, invVars, tVars, g_run, g_end, progress, g_retry, g_html, g_unused,
                 g_dir, g_files, g_docs, g_images, g_opf, g_archive, g_hist>>

\* create_toc_html up to its first model call: the temporary PDF is saved
TocBegin ==
  /\ Running /\ g_pc = At("toc_html", "check", 0)
  /\ FlagOf("toc_html") \notin progress.flags
  /\ g_files' = g_files \cup {TempPdf(0)}
  /\ g_hist' = [g_hist EXCEPT !.log = Append(@, <<"toc_html", 0>>), !.calls = 0]
  /\ g_pc' = At("toc_html", "call0", 0)
  /\ UNCHANGED <<prog, uVars, invVars, tVars, g_run, g_end, progress, g_retry, g_html, g_unused,
                 g_ledger, g_dir, g_docs, g_images, g_opf, g_archive>>

\* the model call before the retry loop; its response is not used, an
\* exception leaves main()
GenCallFirst ==
  /\ Running /\ g_pc.k = "call0"
  /\ g_hist' = [g_hist EXCEPT !.calls = @ + 1, !.called = TRUE]
  /\ \E out \in {"exc", "ok"} :
       IF out = "exc"
       THEN EndRun("raise")
       ELSE /\ g_pc' = [g_pc EXCEPT !.k = "loop"]
            /\ g_retry' = 0
            /\ g_html' = NoText
            /\ UNCHANGED <<g_end, progress, g_unused>>
  /\ UNCHANGED <<prog, uVars, invVars, tVars, g_run, g_ledger, g_dir, g_files, g_docs,
                 g_images, g_opf, g_archive>>

\* while html_content is None and retry_count < num_retries: one model call,
\* html_content = clean_html_response(response.text); an exception leaves main()
GenCallLoop ==
  /\ Running /\ g_pc.k = "loop"
  /\ g_html.none /\ g_retry < NumRetries
  /\ g_hist' = [g_hist EXCEPT !.calls = @ + 1, !.called = TRUE]
  /\ \/ EndRun("raise")
     \/ \E r \in GenResponses :
          /\ g_html' = CleanHtmlResponse(r)
          /\ g_retry' = g_retry + 1
          /\ UNCHANGED <<g_pc, g_end, progress, g_unused>>
  /\ UNCHANGED <<prog, uVars, invVars, tVars, g_run, g_ledger, g_dir, g_files, g_docs,
                 g_images, g_opf, g_archive>>

\* after the loop: ValueError when html_content is None
GenLoopExit ==
  /\ Running /\ g_pc.k = "loop"
  /\ ~(g_html.none /\ g_retry < NumRetries)
  /\ IF g_html.none
     THEN EndRun("raise")
     ELSE /\ g_pc' = [g_pc EXCEPT !.k = IF g_pc.s = "chapters" THEN "extract" ELSE "open"]
          /\ UNCHANGED <<g_end, progress, g_retry, g_html, g_unused>>
  /\ UNCHANGED <<prog, uVars, invVars, tVars, g_run, g_ledger, g_dir, g_files, g_docs,
                 g_images, g_opf, g_archive, g_hist>>

\* create_chapter_html: the placeholders are resolved, the images are
\* written to images/
ChapterExtract ==
  /\ Running /\ g_pc.s = "chapters" /\ g_pc.k = "extract"
  /\ g_images' = g_images \cup ProcessPlaceholders(g_pc.i, g_html.placeholders, 1).images
  /\ g_pc' = [g_pc EXCEPT !.k = "open"]
  /\ UNCHANGED <<prog, uVars, invVars, tVars, g_run, g_end, progress, g_retry, g_html, g_unused,
                 g_ledger, g_dir, g_files, g_docs, g_opf, g_archive, g_hist>>

\* open(output_path, "w"): the document is truncated
DocOpen ==
  /\ Running /\ g_pc.k = "open"
  /\ g_docs' = [g_docs EXCEPT ![g_pc.i] = TornDoc]
  /\ g_hist' = [g_hist EXCEPT !.written = @ \cup {DocEntry(g_pc.i)}]
  /\ g_pc' = [g_pc EXCEPT !.k = "write"]
  /\ UNCHANGED <<prog, uVars, invVars, tVars, g_run, g_end, progress, g_retry, g_html, g_unused,
                 g_ledger, g_dir, g_files, g_images, g_opf, g_archive>>

\* html_file.write(html_content)
DocWrite ==
  /\ Running /\ g_pc.k = "write"
  /\ g_docs' = [g_docs EXCEPT ![g_pc.i] =
                  WrittenDoc(g_run, g_html.html,
                             IF g_pc.s = "chapters"
                             THEN ProcessPlaceholders(g_pc.i, g_html.placeholders, 1).refs
                             ELSE {})]
  /\ g_pc' = [g_pc EXCEPT !.k = "rmtemp"]
  /\ UNCHANGED <<prog, uVars, invVars, tVars, g_run, g_end, progress, g_retry, g_html, g_unused,
                 g_ledger, g_dir, g_files, g_images, g_opf, g_archive, g_hist>>

\* os.remove(temp_pdf_path), and the return to main()
RemoveTemp ==
  /\ Running /\ g_pc.k = "rmtemp"
  /\ g_files' = g_files \ {TempPdf(g_pc.i)}
  /\ g_hist' = [g_hist EXCEPT !.calls = 0]
  /\ g_retry' = 0
  /\ g_html' = NoText
  /\ g_pc' = [g_pc EXCEPT !.k = "mark"]
  /\ UNCHANGED <<prog, uVars, invVars, tVars, g_run, g_end, progress, g_unused,
                 g_ledger, g_dir, g_docs, g_images, g_opf, g_archive>>

\* if "chapters" not in progress: the records are created and saved
EnsureChapters ==
  /\ Running /\ g_pc = At("chapters", "ensure", 0)
  /\ IF progress.has_chapters
     THEN /\ g_pc' = At("chapters", "check", 1)
          /\ UNCHANGED <<progress, g_ledger>>
     ELSE /\ progress' = [progress EXCEPT !.has_chapters = TRUE,
                                          !.chapters = [i \in ChapterIds |-> FALSE]]
          /\ g_ledger' = TornLedger
          /\ g_pc' = At("chapters", "dump", 0)
  /\ UNCHANGED <<prog, uVars, invVars, tVars, g_run, g_end, g_retry, g_html, g_unused,
                 g_dir, g_files, g_docs, g_images, g_opf, g_archive, g_hist>>

\* the chapter loop: a processed chapter is skipped
ChapterSkip ==
  /\ Running /\ g_pc.s = "chapters" /\ g_pc.k = "check"
  /\ ChapterProcessed(progress, g_pc.i)
  /\ g_hist' = [g_hist EXCEPT !.decided[g_pc.i] = "skip"]
  /\ g_pc' = AfterDump(g_pc)
  /\ UNCHANGED <<prog, uVars, invVars, tVars, g_run, g_end, progress, g_retry, g_html, g_unused,
                 g_ledger, g_dir, g_files, g_docs, g_images, g_opf, g_archive>>

\* the chapter loop: create_chapter_html is called; it saves the cropped PDF
ChapterBeginMutEarlyMark ==
  /\ Running /\ g_pc.s = "chapters" /\ g_pc.k = "check"
  /\ ~ChapterProcessed(progress, g_pc.i)
  /\ progress' = [progress EXCEPT !.chapters[g_pc.i] = TRUE,
                                  !.last_processed_chapter_index = g_pc.i]
  /\ g_ledger' = SavedLedger(progress')
  /\ g_files' = g_files \cup {TempPdf(g_pc.i)}
  /\ g_hist' = [g_hist EXCEPT !.decided[g_pc.i] = "gen",
                              !.gen[g_pc.i] = @ + 1,
                              !.calls = 0,
                              !.log = Append(@, <<"chapters", g_pc.i>>)]
  /\ g_pc' = [g_pc EXCEPT !.k = "call0"]
  /\ UNCHANGED <<prog, uVars, invVars, tVars, g_run, g_end, g_retry, g_html, g_unused,
                 g_dir, g_docs, g_images, g_opf, g_archive>>

ChapterBegin ==
  /\ Running /\ g_pc.s = "chapters" /\ g_pc.k = "check"
  /\ ~ChapterProcessed(progress, g_pc.i)
  /\ g_files' = g_files \cup {TempPdf(g_pc.i)}
  /\ g_hist' = [g_hist EXCEPT !.decided[g_pc.i] = "gen",
                              !.gen[g_pc.i] = @ + 1,
                              !.calls = 0,
                              !.log = Append(@, <<"chapters", g_pc.i>>)]
  /\ g_pc' = [g_pc EXCEPT !.k = "call0"]
  /\ UNCHANGED <<prog, uVars, invVars, tVars, g_run, g_end, progress, g_retry, g_html, g_unused,
                 g_ledger, g_dir, g_docs, g_images, g_opf, g_archive>>

\* the chapter's title, the cursor and the chapter's record are updated;
\* save_generation_progress opens the file for writing
ChapterMark ==
  /\ Running /\ g_pc.s = "chapters" /\ g_pc.k = "mark"
  /\ progress' = [progress EXCEPT
                    !.chapter_titles = IF @ < g_pc.i THEN @ + 1 ELSE @,
                    !.last_processed_chapter_index = g_pc.i,
                    !.chapters[g_pc.i] = TRUE]
  /\ g_ledger' = TornLedger
  /\ g_pc' = [g_pc EXCEPT !.k = "dump"]
  /\ UNCHANGED <<prog, uVars, invVars, tVars, g_run, g_end, g_retry, g_html, g_unused,
                 g_dir, g_files, g_docs, g_images, g_opf, g_archive, g_hist>>

\* create_content_opf: the manifest lists the images found in images/
ContentOpf ==
  /\ Running /\ g_pc = At("content_opf", "check", 0)
  /\ FlagOf("content_opf") \notin progress.flags
  /\ g_files' = g_files \cup {FileOf("content_opf")}
  /\ g_opf' = g_images
  /\ g_hist' = [g_hist EXCEPT !.log = Append(@, <<"content_opf", 0>>),
                              !.written = @ \cup {FileOf("content_opf")}]
  /\ g_pc' = At("content_opf", "mark", 0)
  /\ UNCHANGED <<prog, uVars, invVars, tVars, g_run, g_end, progress, g_retry, g_html, g_unused,
                 g_ledger, g_dir, g_docs, g_images, g_archive>>

\* clean_unused_images: unused_images = all_images - referenced_images
CleanupScan ==
  /\ Running /\ g_pc = At("cleanup", "scan", 0)
  /\ g_unused' = g_images \ ReferencedImages(g_docs)
  /\ g_hist' = [g_hist EXCEPT !.log = Append(@, <<"cleanup", 0>>)]
  /\ g_pc' = At("cleanup", "remove", 0)
  /\ UNCHANGED <<prog, uVars, invVars, tVars, g_run, g_end, progress, g_retry, g_html,
                 g_ledger, g_dir, g_files, g_docs, g_images, g_opf, g_archive>>

\* for img_name in unused_images: os.remove
CleanupRemove ==
  /\ Running /\ g_pc = At("cleanup", "remove", 0)
  /\ \E img \in g_unused :
       /\ g_images' = g_images \ {img}
       /\ g_unused' = g_unused \ {img}
  /\ UNCHANGED <<prog, uVars, invVars, tVars, g_pc, g_run, g_end, progress, g_retry, g_html,
                 g_ledger, g_dir, g_files, g_docs, g_opf, g_archive, g_hist>>

CleanupDone ==
  /\ Running /\ g_pc = At("cleanup", "remove", 0)
  /\ g_unused = {}
  /\ g_pc' = Enter(StageAfter("cleanup"))
  /\ UNCHANGED <<prog, uVars, invVars, tVars, g_run, g_end, progress, g_retry, g_html, g_unused,
                 g_ledger, g_dir, g_files, g_docs, g_images, g_opf, g_archive, g_hist>>

\* create_epub: mimetype stored first, every other file deflated; the
\* process ends
CreateEpub ==
  /\ Running /\ g_pc = At("epub", "zip", 0)
  /\ g_hist' = [g_hist EXCEPT !.log = Append(@, <<"epub", 0>>)]
  /\ IF Entry("mimetype") \in g_files
     THEN /\ g_archive' = [built |-> TRUE,
                           stored |-> {Entry("mimetype")},
                           deflated |-> TreeFiles(g_files, g_docs, g_images) \ {Entry("mimetype")}]
          /\ EndRun("done")
     ELSE /\ g_archive' = g_archive
          /\ EndRun("raise")
  /\ UNCHANGED <<prog, uVars, invVars, tVars, g_run, g_ledger, g_dir, g_files, g_docs,
                 g_images, g_opf>>

\* the process is killed
GCrash ==
  /\ Running
  /\ EndRun("crash")
  /\ UNCHANGED <<prog, uVars, invVars, tVars, g_run, g_ledger, g_dir, g_files, g_docs,
                 g_images, g_opf, g_archive, g_hist>>

GenerateStep ==
  \/ GStart
  \/ StageSkip
  \/ StageCreate
  \/ StageMark
  \/ SaveDump
  \/ TocBegin
  \/ GenCallFirst
  \/ GenCallLoop
  \/ GenLoopExit
  \/ ChapterExtract
  \/ DocOpen
  \/ DocWrite
  \/ RemoveTemp
  \/ EnsureChapters
  \/ ChapterSkip
  \/ ChapterBegin
  \/ ChapterMark
  \/ ContentOpf
  \/ CleanupScan
  \/ CleanupRemove
  \/ CleanupDone
  \/ CreateEpub

InitGenerate ==
  /\ prog = "generate"
  /\ InvIdle
  /\ GIdle
  /\ TIdle(NoConfig)
  /\ UIdle

NextGenerate == GenerateStep \/ GCrash

SpecAsm == InitGenerate /\ [][NextGenerate]_vars

(***************************************************************************)
(* One tool run on an output directory that holds a ledger written by an   *)
(* earlier (possibly older) version: the ledger is an input.                *)
(***************************************************************************)
FlagsUpTo(n) == {FlagOf(s) : s \in {Stages[j] : j \in 1..n} \cap FlaggedStages}

FlagSetInputs ==
  {FlagsUpTo(n) : n \in 0..Len(Stages)} \cup
  {FlagsUpTo(Len(Stages)) \ FlagsUpTo(n) : n \in 0..Len(Stages)}

LedgerInputs ==
  {[flags |-> f, has_chapters |-> TRUE, chapters |-> c,
    last_processed_chapter_index |-> x, chapter_titles |-> Max(x, 0)] :
      f \in FlagSetInputs, c \in [ChapterIds -> BOOLEAN], x \in -1..NumChapters}
  \cup
  {[flags |-> f, has_chapters |-> FALSE, chapters |-> [i \in ChapterIds |-> FALSE],
    last_processed_chapter_index |-> x, chapter_titles |-> Max(x, 0)] :
      f \in FlagSetInputs, x \in -1..NumChapters}

\* the working tree that goes with a ledger: what it marks done is there
TreeOf(p) ==
  [files |-> {FileOf(s) : s \in {t \in PlainStages \cup {"content_opf"} : FlagOf(t) \in p.flags}},
   docs |-> [d \in DocIds |->
               IF d = 0
               THEN IF FlagOf("toc_html") \in p.flags THEN WrittenDoc(0, TRUE, {}) ELSE AbsentDoc
               ELSE IF ChapterProcessed(p, d) THEN WrittenDoc(0, TRUE, {}) ELSE AbsentDoc]]

InitLoaded ==
  /\ prog = "generate"
  /\ InvIdle
  /\ g_pc = Off
  /\ g_run = 0
  /\ g_end = [how |-> "none", unit |-> 0]
  /\ progress = DefaultProgress(FALSE)
  /\ g_retry = 0
  /\ g_html = NoText
  /\ g_unused = {}
  /\ \E p \in LedgerInputs :
       /\ g_ledger = SavedLedger(p)
       /\ g_files = TreeOf(p).files
       /\ g_docs = TreeOf(p).docs
  /\ g_dir = TRUE
  /\ g_images = {}
  /\ g_opf = {}
  /\ g_archive = NoArchive
  /\ g_hist = InitHist
  /\ TIdle(NoConfig)
  /\ UIdle

SpecAsmLoaded == InitLoaded /\ [][GenerateStep]_vars

(***************************************************************************)
(* One tool run on an output directory whose epub/ tree is gone while the  *)
(* ledger of an earlier run is still there (or is not).                    *)
(***************************************************************************)
InitStale ==
  /\ prog = "generate"
  /\ InvIdle
  /\ g_pc = Off
  /\ g_run = 0
  /\ g_end = [how |-> "none", unit |-> 0]
  /\ progress = DefaultProgress(FALSE)
  /\ g_retry = 0
  /\ g_html = NoText
  /\ g_unused = {}
  /\ \E p \in LedgerInputs : g_ledger = SavedLedger(p)
  /\ g_dir = FALSE
  /\ g_files = {}
  /\ g_docs = [d \in DocIds |-> AbsentDoc]
  /\ g_images = {}
  /\ g_opf = {}
  /\ g_archive = NoArchive
  /\ g_hist = InitHist
  /\ TIdle(NoConfig)
  /\ UIdle

SpecAsmStale == (InitGenerate \/ InitStale) /\ [][GenerateStep]_vars

(***************************************************************************)
(* translate_epub.py translate_epub(), one action per step.                *)
(***************************************************************************)
TRunning == t_pc # Off

TUnit(pc) == <<pc.s, pc.i>>

InUnitLoop(pc) == pc.s \in {"chapter", "html"}

\* start_index = progress["last_processed_..._index"] + 1
LoopEntryMutRestart(p, kind) == At(kind, "check", 0)

LoopEntry(p, kind) == At(kind, "check", UnitCursor(p, kind) + 1)

\* where translate_epub() continues after a save
TAfterDump(pc, p) ==
  CASE pc.s = "title" -> At("toc", "check", 0)
    [] pc.s = "toc" -> At("track", "", 0)
    [] pc.s = "track" -> At("copy", "", 0)
    [] pc.s = "opf" -> LoopEntry(p, "chapter")
    [] OTHER -> At(pc.s, "check", pc.i + 1)

\* the process ends: by completion, by an exception, or killed
TEnd(how, unit) ==
  /\ t_pc' = Off
  /\ t_end' = [how |-> how, unit |-> unit]
  /\ t_progress' = TDefaultProgress
  /\ t_resuming' = FALSE
  /\ t_read' = AbsentUnit
  /\ t_translated_html' = <<>>
  /\ t_previous_content' = NoTextChunk
  /\ InvLeave

\* resuming = epub_translated_dir.exists(); the ledger is loaded only when
\* resuming (a torn file makes json.load raise), else the directories are made
TStart ==
  /\ prog = "translate" /\ t_pc = Off /\ t_run < MaxRuns
  /\ t_run' = t_run + 1
  /\ t_hist' = [TInitHist EXCEPT
                  !.last = t_hist.last,
                  !.prev = [how |-> t_end.how, unit |-> t_end.unit, ledger |-> t_ledger]]
  /\ IF t_dir /\ t_ledger.state = "torn"
     THEN /\ t_end' = [how |-> "raise", unit |-> NoUnit]
          /\ UNCHANGED <<t_pc, t_progress, t_resuming, t_dir>>
     ELSE /\ t_end' = [how |-> "running", unit |-> NoUnit]
          /\ t_resuming' = t_dir
          /\ t_progress' = IF t_dir THEN LoadTranslationProgress(t_ledger) ELSE TDefaultProgress
          /\ t_dir' = TRUE
          /\ t_pc' = IF t_dir THEN At("find", "", 0) ELSE At("extract", "", 0)
  /\ UNCHANGED <<prog, uVars, invVars, gVars, t_cfg, t_read, t_translated_html, t_previous_content, t_ledger, t_extract, t_files,
                 t_meta, t_archive>>

\* extract_epub(input_epub_path, epub_extract_dir)
TExtract ==
  /\ t_pc.s = "extract"
  /\ t_extract' = TRUE
  /\ t_pc' = At("find", "", 0)
  /\ UNCHANGED <<prog, uVars, invVars, gVars, t_run, t_end, t_cfg, t_progress, t_resuming,
                 t_read, t_translated_html, t_previous_content, t_ledger, t_dir, t_files, t_meta, t_archive, t_hist>>

\* toc.ncx is looked up in extract/; FileNotFoundError without it
TFindToc ==
  /\ t_pc.s = "find"
  /\ IF t_extract
     THEN /\ t_pc' = At("title", "check", 0)
          /\ UNCHANGED <<invVars, t_end, t_progress, t_resuming, t_read, t_translated_html, t_previous_content>>
     ELSE TEnd("raise", NoUnit)
  /\ UNCHANGED <<prog, uVars, gVars, t_run, t_cfg, t_ledger, t_extract, t_dir, t_files,
                 t_meta, t_archive, t_hist>>

\* the model is called through generate_content_with_retry, streaming
TCall(op, what) ==
  /\ InvEntry(NumRetries, DefaultMaxBackoff, TRUE, op)
  /\ t_hist' = [t_hist EXCEPT
                  !.calls = Append(@, what),
                  !.ctx = IF what \in Units
                          THEN Append(@, [unit |-> what,
                                          context |-> Context(t_previous_content,
                                                              t_cfg.previous_content_limit),
                                          last |-> t_hist.last])
                          ELSE @,
                  !.at = [ledger |-> t_ledger,
                          content |-> IF what \in Units THEN t_files[what] ELSE AbsentUnit]]

\* save_translation_progress opens the file for writing
TSaveOpen == t_ledger' = TTornLedger

TTitleSkip ==
  /\ t_pc = At("title", "check", 0)
  /\ t_progress.book_title_translated
  /\ t_pc' = At("toc", "check", 0)
  /\ UNCHANGED <<prog, uVars, invVars, gVars, t_run, t_end, t_cfg, t_progress, t_resuming,
                 t_read, t_translated_html, t_previous_content, t_ledger, t_extract, t_dir, t_files, t_meta, t_archive, t_hist>>

\* "target_title" in config: no call
TTitleConfig ==
  /\ t_pc = At("title", "check", 0)
  /\ ~t_progress.book_title_translated /\ t_cfg.target_title
  /\ t_progress' = [t_progress EXCEPT !.translated_book_title = "target_title",
                                      !.book_title_translated = TRUE]
  /\ TSaveOpen
  /\ t_pc' = At("title", "dump", 0)
  /\ UNCHANGED <<prog, uVars, invVars, gVars, t_run, t_end, t_cfg, t_resuming,
                 t_read, t_translated_html, t_previous_content, t_extract, t_dir, t_files, t_meta, t_archive, t_hist>>

TTitleCall ==
  /\ t_pc = At("title", "check", 0)
  /\ ~t_progress.book_title_translated /\ ~t_cfg.target_title
  /\ TCall("Book title translation", <<"title", 0>>)
  /\ t_pc' = At("title", "wait", 0)
  /\ UNCHANGED <<prog, uVars, gVars, t_run, t_end, t_cfg, t_progress, t_resuming,
                 t_read, t_translated_html, t_previous_content, t_ledger, t_extract, t_dir, t_files, t_meta, t_archive>>

TTitleReturn ==
  /\ t_pc = At("title", "wait", 0) /\ i_pc = "returned"
  /\ t_progress' = [t_progress EXCEPT !.translated_book_title = "response.text",
                                      !.book_title_translated = TRUE]
  /\ TSaveOpen
  /\ InvLeave
  /\ t_pc' = At("title", "dump", 0)
  /\ UNCHANGED <<prog, uVars, gVars, t_run, t_end, t_cfg, t_resuming,
                 t_read, t_translated_html, t_previous_content, t_extract, t_dir, t_files, t_meta, t_archive, t_hist>>

\* generate_content_with_retry raised: nothing catches it
TCallRaise ==
  /\ TRunning /\ t_pc.k = "wait" /\ i_pc = "raised"
  /\ TEnd("raise", IF InUnitLoop(t_pc) THEN TUnit(t_pc) ELSE NoUnit)
  /\ UNCHANGED <<prog, uVars, gVars, t_run, t_cfg, t_ledger, t_extract, t_dir, t_files,
                 t_meta, t_archive, t_hist>>

\* json.dump(progress_data, f)
TSaveDump ==
  /\ TRunning /\ t_pc.k = "dump"
  /\ t_ledger' = TSavedLedger(t_progress)
  /\ t_pc' = TAfterDump(t_pc, t_progress)
  /\ UNCHANGED <<prog, uVars, invVars, gVars, t_run, t_end, t_cfg, t_progress, t_resuming,
                 t_read, t_translated_html, t_previous_content, t_extract, t_dir, t_files, t_meta, t_archive, t_hist>>

TTocSkip ==
  /\ t_pc = At("toc", "check", 0)
  /\ t_progress.toc_translated
  /\ t_pc' = At("track", "", 0)
  /\ UNCHANGED <<prog, uVars, invVars, gVars, t_run, t_end, t_cfg, t_progress, t_resuming,
                 t_read, t_translated_html, t_previous_content, t_ledger, t_extract, t_dir, t_files, t_meta, t_archive, t_hist>>

\* translate_toc_entries: one batch
TTocCall ==
  /\ t_pc = At("toc", "check", 0)
  /\ ~t_progress.toc_translated
  /\ TCall("TOC entries translation (batch 1)", <<"toc", 0>>)
  /\ t_pc' = At("toc", "wait", 0)
  /\ UNCHANGED <<prog, uVars, gVars, t_run, t_end, t_cfg, t_progress, t_resuming,
                 t_read, t_translated_html, t_previous_content, t_ledger, t_extract, t_dir, t_files, t_meta, t_archive>>

TTocReturn ==
  /\ t_pc = At("toc", "wait", 0) /\ i_pc = "returned"
  /\ t_progress' = [t_progress EXCEPT
                      !.translated_chapters = [j \in 1..NumChapters |-> FALSE],
                      !.toc_translated = TRUE]
  /\ TSaveOpen
  /\ InvLeave
  /\ t_pc' = At("toc", "dump", 0)
  /\ UNCHANGED <<prog, uVars, gVars, t_run, t_end, t_cfg, t_resuming,
                 t_read, t_translated_html, t_previous_content, t_extract, t_dir, t_files, t_meta, t_archive, t_hist>>

\* the HTML files that are no chapter are added to the ledger, which is saved
TTrack ==
  /\ t_pc = At("track", "", 0)
  /\ t_progress' = [t_progress EXCEPT
                      !.translated_html_files =
                         IF Len(@) = 0 THEN [j \in 1..NumExtra |-> FALSE] ELSE @]
  /\ TSaveOpen
  /\ t_pc' = At("track", "dump", 0)
  /\ UNCHANGED <<prog, uVars, invVars, gVars, t_run, t_end, t_cfg, t_resuming,
                 t_read, t_translated_html, t_previous_content, t_extract, t_dir, t_files, t_meta, t_archive, t_hist>>

\* if not resuming: shutil.copytree(epub_extract_dir, epub_translated_dir)
TCopy ==
  /\ t_pc = At("copy", "", 0)
  /\ IF ~t_resuming
     THEN /\ t_files' = [u \in Units |->
                           IF u[1] = "chapter" /\ u[2] \in t_cfg.missing
                           THEN AbsentUnit ELSE OrigUnit]
          /\ t_meta' = [ncx |-> "orig", opf |-> "orig", mimetype |-> TRUE]
     ELSE UNCHANGED <<t_files, t_meta>>
  /\ t_pc' = At("ncx", "", 0)
  /\ UNCHANGED <<prog, uVars, invVars, gVars, t_run, t_end, t_cfg, t_progress, t_resuming,
                 t_read, t_translated_html, t_previous_content, t_ledger, t_extract, t_dir, t_archive, t_hist>>

\* if not resuming or not progress["toc_translated"]: update_toc_ncx(...)
TNcx ==
  /\ t_pc = At("ncx", "", 0)
  /\ IF ~t_resuming \/ ~t_progress.toc_translated
     THEN t_meta' = [t_meta EXCEPT !.ncx = "updated"]
     ELSE UNCHANGED t_meta
  /\ t_pc' = At("opf", "check", 0)
  /\ UNCHANGED <<prog, uVars, invVars, gVars, t_run, t_end, t_cfg, t_progress, t_resuming,
                 t_read, t_translated_html, t_previous_content, t_ledger, t_extract, t_dir, t_files, t_archive, t_hist>>

\* content.opf is already updated, or there is none in translated/
TOpfSkip ==
  /\ t_pc = At("opf", "check", 0)
  /\ t_progress.content_opf_updated \/ t_meta.opf = "absent"
  /\ t_pc' = LoopEntry(t_progress, "chapter")
  /\ UNCHANGED <<prog, uVars, invVars, gVars, t_run, t_end, t_cfg, t_progress, t_resuming,
                 t_read, t_translated_html, t_previous_content, t_ledger, t_extract, t_dir, t_files, t_meta, t_archive, t_hist>>

TOpfOpen ==
  /\ t_pc = At("opf", "check", 0)
  /\ ~t_progress.content_opf_updated /\ t_meta.opf # "absent"
  /\ t_meta' = [t_meta EXCEPT !.opf = "torn"]
  /\ t_pc' = At("opf", "write", 0)
  /\ UNCHANGED <<prog, uVars, invVars, gVars, t_run, t_end, t_cfg, t_progress, t_resuming,
                 t_read, t_translated_html, t_previous_content, t_ledger, t_extract, t_dir, t_files, t_archive, t_hist>>

TOpfWrite ==
  /\ t_pc = At("opf", "write", 0)
  /\ t_meta' = [t_meta EXCEPT !.opf = "updated"]
  /\ t_pc' = At("opf", "mark", 0)
  /\ UNCHANGED <<prog, uVars, invVars, gVars, t_run, t_end, t_cfg, t_progress, t_resuming,
                 t_read, t_translated_html, t_previous_content, t_ledger, t_extract, t_dir, t_files, t_archive, t_hist>>

TOpfMark ==
  /\ t_pc = At("opf", "mark", 0)
  /\ t_progress' = [t_progress EXCEPT !.content_opf_updated = TRUE]
  /\ TSaveOpen
  /\ t_pc' = At("opf", "dump", 0)
  /\ UNCHANGED <<prog, uVars, invVars, gVars, t_run, t_end, t_cfg, t_resuming,
                 t_read, t_translated_html, t_previous_content, t_extract, t_dir, t_files, t_meta, t_archive, t_hist>>

\* the loop over the chapters, then over the additional HTML files, is done
TLoopEnd ==
  /\ InUnitLoop(t_pc) /\ t_pc.k = "check"
  /\ t_pc.i >= Len(UnitList(t_progress, t_pc.s))
  /\ t_pc' = IF t_pc.s = "chapter" THEN LoopEntry(t_progress, "html") ELSE At("zip", "", 0)
  /\ UNCHANGED <<prog, uVars, invVars, gVars, t_run, t_end, t_cfg, t_progress, t_resuming,
                 t_read, t_translated_html, t_previous_content, t_ledger, t_extract, t_dir, t_files, t_meta, t_archive, t_hist>>

\* the unit is marked translated (continue), or its file is not in translated/
TUnitSkip ==
  /\ InUnitLoop(t_pc) /\ t_pc.k = "check"
  /\ t_pc.i < Len(UnitList(t_progress, t_pc.s))
  /\ TMarked(t_progress, TUnit(t_pc)) \/ t_files[TUnit(t_pc)].state = "absent"
  /\ t_pc' = [t_pc EXCEPT !.i = @ + 1]
  /\ UNCHANGED <<prog, uVars, invVars, gVars, t_run, t_end, t_cfg, t_progress, t_resuming,
                 t_read, t_translated_html, t_previous_content, t_ledger, t_extract, t_dir, t_files, t_meta, t_archive, t_hist>>

\* the file is read and translate_html_content calls the model
TUnitCallMutOpenFirst ==
  /\ InUnitLoop(t_pc) /\ t_pc.k = "check"
  /\ t_pc.i < Len(UnitList(t_progress, t_pc.s))
  /\ ~TMarked(t_progress, TUnit(t_pc)) /\ t_files[TUnit(t_pc)].state # "absent"
  /\ t_read' = t_files[TUnit(t_pc)]
  /\ UNCHANGED <<t_translated_html, t_previous_content>>
  /\ t_files' = [t_files EXCEPT ![TUnit(t_pc)] = TornUnit]
  /\ TCall("HTML translation", TUnit(t_pc))
  /\ t_pc' = [t_pc EXCEPT !.k = "wait"]
  /\ UNCHANGED <<prog, uVars, gVars, t_run, t_end, t_cfg, t_progress, t_resuming,
                 t_ledger, t_extract, t_dir, t_meta, t_archive>>

TUnitCall ==
  /\ InUnitLoop(t_pc) /\ t_pc.k = "check"
  /\ t_pc.i < Len(UnitList(t_progress, t_pc.s))
  /\ ~TMarked(t_progress, TUnit(t_pc)) /\ t_files[TUnit(t_pc)].state # "absent"
  /\ t_read' = t_files[TUnit(t_pc)]
  /\ UNCHANGED <<t_translated_html, t_previous_content>>
  /\ TCall("HTML translation", TUnit(t_pc))
  /\ t_pc' = [t_pc EXCEPT !.k = "wait"]
  /\ UNCHANGED <<prog, uVars, gVars, t_run, t_end, t_cfg, t_progress, t_resuming,
                 t_ledger, t_extract, t_dir, t_files, t_meta, t_archive>>

\* translated_html = clean_html_response(response.text), which may raise
TUnitReturn ==
  /\ InUnitLoop(t_pc) /\ t_pc.k = "wait" /\ i_pc = "returned"
  /\ IF TCleanHtmlResponse(response.text).ok
     THEN /\ t_pc' = [t_pc EXCEPT !.k = "open"]
          /\ t_translated_html' = TCleanHtmlResponse(response.text).html
          /\ InvLeave
          /\ UNCHANGED <<t_end, t_progress, t_resuming, t_read, t_previous_content>>
     ELSE TEnd("raise", TUnit(t_pc))
  /\ UNCHANGED <<prog, uVars, gVars, t_run, t_cfg, t_ledger, t_extract, t_dir, t_files,
                 t_meta, t_archive, t_hist>>

\* with open(path, "w") as f: f.write(translated_html)
TUnitOpen ==
  /\ InUnitLoop(t_pc) /\ t_pc.k = "open"
  /\ t_files' = [t_files EXCEPT ![TUnit(t_pc)] = TornUnit]
  /\ t_pc' = [t_pc EXCEPT !.k = "write"]
  /\ UNCHANGED <<prog, uVars, invVars, gVars, t_run, t_end, t_cfg, t_progress, t_resuming,
                 t_read, t_translated_html, t_previous_content, t_ledger, t_extract, t_dir, t_meta, t_archive, t_hist>>

TUnitWrite ==
  /\ InUnitLoop(t_pc) /\ t_pc.k = "write"
  /\ t_files' = [t_files EXCEPT ![TUnit(t_pc)] = TranslatedUnit(t_read)]
  /\ t_previous_content' = KeptContent(t_translated_html, t_cfg.previous_content_limit)
  /\ t_hist' = [t_hist EXCEPT !.last = TextChunk(t_translated_html)]
  /\ t_pc' = [t_pc EXCEPT !.k = "mark"]
  /\ UNCHANGED <<prog, uVars, invVars, gVars, t_run, t_end, t_cfg, t_progress, t_resuming,
                 t_read, t_translated_html, t_ledger, t_extract, t_dir, t_meta, t_archive>>

\* the unit's flag and the cursor are set and the ledger is saved
TUnitMark ==
  /\ InUnitLoop(t_pc) /\ t_pc.k = "mark"
  /\ t_progress' = MarkUnit(t_progress, TUnit(t_pc))
  /\ TSaveOpen
  /\ t_pc' = [t_pc EXCEPT !.k = "dump"]
  /\ UNCHANGED <<prog, uVars, invVars, gVars, t_run, t_end, t_cfg, t_resuming,
                 t_read, t_translated_html, t_previous_content, t_extract, t_dir, t_files, t_meta, t_archive, t_hist>>

\* temp.zip is written, mimetype first and stored, then moved to <title>.epub
TZip ==
  /\ t_pc = At("zip", "", 0)
  /\ t_archive' = [built |-> TRUE,
                   name |-> t_progress.translated_book_title,
                   stored |-> IF t_meta.mimetype THEN {<<"mimetype", 0>>} ELSE {},
                   deflated |-> TTreeFiles(t_files, t_meta)]
  /\ TEnd("done", NoUnit)
  /\ UNCHANGED <<prog, uVars, gVars, t_run, t_cfg, t_ledger, t_extract, t_dir, t_files,
                 t_meta, t_hist>>

\* the process is killed
TCrash ==
  /\ TRunning
  /\ TEnd("crash", IF InUnitLoop(t_pc) /\ t_pc.k = "mark" THEN TUnit(t_pc) ELSE NoUnit)
  /\ UNCHANGED <<prog, uVars, gVars, t_run, t_cfg, t_ledger, t_extract, t_dir, t_files,
                 t_meta, t_archive, t_hist>>

TranslateStep ==
  \/ TStart
  \/ TExtract
  \/ TFindToc
  \/ TTitleSkip
  \/ TTitleConfig
  \/ TTitleCall
  \/ TTitleReturn
  \/ TCallRaise
  \/ TSaveDump
  \/ TTocSkip
  \/ TTocCall
  \/ TTocReturn
  \/ TTrack
  \/ TCopy
  \/ TNcx
  \/ TOpfSkip
  \/ TOpfOpen
  \/ TOpfWrite
  \/ TOpfMark
  \/ TLoopEnd
  \/ TUnitSkip
  \/ TUnitCall
  \/ TUnitReturn
  \/ TUnitOpen
  \/ TUnitWrite
  \/ TUnitMark
  \/ TZip

\* the streaming steps of the invoker, which is all the translation uses
InvokerStreamStep ==
  \/ InvStartStream
  \/ InvStreamChunk
  \/ InvStreamEnd
  \/ InvStreamFail
  \/ InvExit

InitTranslate ==
  /\ prog = "translate"
  /\ InvIdle
  /\ GIdle
  /\ \E cfg \in ConfigInputs : TIdle(cfg)
  /\ UIdle

NextTranslate == TranslateStep \/ InvokerStreamStep \/ TCrash

SpecTr == InitTranslate /\ [][NextTranslate]_vars

(***************************************************************************)
(* The translation pipeline started on the working tree of earlier runs,   *)
(* for every ledger of a bounded family: title and TOC are done, any units *)
(* are flagged and the two cursors stand anywhere.  No kill.               *)
(***************************************************************************)
TLedgerInputs ==
  {[TDefaultProgress EXCEPT
      !.book_title_translated = TRUE,
      !.toc_translated = TRUE,
      !.content_opf_updated = TRUE,
      !.translated_book_title = "target_title",
      !.translated_chapters = c,
      !.translated_html_files = h,
      !.last_processed_chapter_index = x,
      !.last_processed_html_index = y] :
     c \in [1..NumChapters -> BOOLEAN], h \in [1..NumExtra -> BOOLEAN],
     x \in -1..(NumChapters - 1), y \in -1..(NumExtra - 1)}

\* the tree that goes with a ledger: the files of the flagged units are
\* translations, the others are as they were copied
TTreeOf(p) ==
  [u \in Units |-> IF UnitList(p, u[1])[u[2] + 1] THEN TranslatedUnit(OrigUnit) ELSE OrigUnit]

InitTrLoaded ==
  /\ prog = "translate"
  /\ InvIdle
  /\ GIdle
  /\ UIdle
  /\ \/ \E cfg \in ConfigInputs : TIdle(cfg)
     \/ /\ t_pc = Off
        /\ t_run = 0
        /\ t_end = [how |-> "none", unit |-> NoUnit]
        /\ t_cfg = NoConfig
        /\ t_progress = TDefaultProgress
        /\ t_resuming = FALSE
        /\ t_read = AbsentUnit
        /\ t_translated_html = <<>>
        /\ t_previous_content = NoTextChunk
        /\ \E p \in TLedgerInputs :
             /\ t_ledger = TSavedLedger(p)
             /\ t_files = TTreeOf(p)
        /\ t_extract = TRUE
        /\ t_dir = TRUE
        /\ t_meta = [ncx |-> "updated", opf |-> "updated", mimetype |-> TRUE]
        /\ t_archive = TNoArchive
        /\ t_hist = TInitHist

SpecTrLoaded == InitTrLoaded /\ [][TranslateStep \/ InvokerStreamStep]_vars

(***************************************************************************)
(* Either tool, run any number of times on its own output directory.       *)
(***************************************************************************)
Init == InitGenerate \/ InitTranslate

Next == NextGenerate \/ NextTranslate

Spec == Init /\ [][Next]_vars

(***************************************************************************)
(* The invoker called on its own, for every argument of a bounded set.      *)
(***************************************************************************)
BackoffCaps == {30, 50, 300}

InitInvoker ==
  /\ prog = "invoker"
  /\ i_pc = "loop"
  /\ max_retries \in 0..MaxRetries
  /\ max_backoff \in BackoffCaps
  /\ use_streaming \in BOOLEAN
  /\ operation_name \in {"Book title translation", "HTML translation"}
  /\ retry_count = 0
  /\ response = NoneResponse
  /\ aggregated_response = <<>>
  /\ i_error = NoError
  /\ i_calls = 0
  /\ i_sleeps = <<>>
  /\ i_outcomes = <<>>
  /\ i_chunks = <<>>
  /\ i_failed = <<>>
  /\ GIdle
  /\ TIdle(NoConfig)
  /\ UIdle

NextInvoker == InvokerStep

SpecInvoker == InitInvoker /\ [][NextInvoker]_vars

(***************************************************************************)
(* clean_html_response() called on its own: once on a text, or twice on    *)
(* the two pieces of a document, the second call with the first call's     *)
(* partial content as previous_content.                                    *)
(***************************************************************************)
\* lines 18-38
SanEntry ==
  /\ s_pc = "entry"
  /\ IF s_html_content.none
     THEN /\ s_pc' = "done"
          /\ s_result' = [kind |-> "None", content |-> <<>>, cause |-> ""]
          /\ UNCHANGED s_html_content
     ELSE /\ s_pc' = "loop"
          /\ s_html_content' = TextChunk(Stitched(s_html_content.text, s_previous_content))
          /\ UNCHANGED s_result
  /\ s_retry_count' = 0
  /\ UNCHANGED <<sanRest, s_case, s_previous_content, s_max_retries,
                 s_first, s_iters>>

\* lines 39-127, one pass
SanIterate ==
  /\ s_pc = "loop"
  /\ s_retry_count < s_max_retries
  /\ LET r == Iteration(s_html_content.text, s_retry_count, s_max_retries)
     IN  IF r.kind = "continue"
         THEN /\ s_html_content' = TextChunk(r.content)
              /\ s_retry_count' = s_retry_count + 1
              /\ UNCHANGED <<s_pc, s_result>>
         ELSE /\ s_pc' = "done"
              /\ s_result' = r
              /\ UNCHANGED <<s_html_content, s_retry_count>>
  /\ s_iters' = s_iters + 1
  /\ UNCHANGED <<sanRest, s_case, s_previous_content, s_max_retries,
                 s_first>>

\* line 39 false: the function ends without a return statement
SanLoopExit ==
  /\ s_pc = "loop"
  /\ ~(s_retry_count < s_max_retries)
  /\ s_pc' = "done"
  /\ s_result' = [kind |-> "None", content |-> <<>>, cause |-> ""]
  /\ UNCHANGED <<sanRest, s_case, s_html_content, s_previous_content,
                 s_max_retries, s_retry_count, s_first, s_iters>>

\* the second call of a continuation: the partial content of the first call
\* is passed as previous_content with the second piece
SanContinuation ==
  /\ s_pc = "done"
  /\ s_case.kind = "split"
  /\ s_first = NoResult
  /\ s_result.kind = "partial"
  /\ s_pc' = "entry"
  /\ s_first' = s_result
  /\ s_html_content' = TextChunk(s_case.second)
  /\ s_previous_content' = TextChunk(s_result.content)
  /\ s_result' = NoResult
  /\ s_retry_count' = 0
  /\ s_iters' = 0
  /\ UNCHANGED <<sanRest, s_case, s_max_retries>>

InitSan ==
  /\ prog = "sanitize"
  /\ InvIdle
  /\ GIdle
  /\ TIdle(NoConfig)
  /\ TocIdle
  /\ ImgIdle
  /\ BIdle
  /\ FIdle
  /\ s_pc = "entry"
  /\ \/ \E D \in Documents(MaxDoc), f \in {"[fence html]", "[fence]", "[fence xml]"} :
          s_case = SanCase("wrapped", D, Wrapped(D, f), <<>>, NoTextChunk, DefaultMaxRetries)
     \/ \E D \in Documents(MaxDoc), k \in 1..(MaxDoc - 1) :
          /\ k < Len(D)
          /\ s_case = SanCase("split", D, SubSeq(D, 1, k), SubSeq(D, k + 1, Len(D)),
                              NoTextChunk, DefaultMaxRetries)
     \/ \E t \in TextsUpTo(SanTokens, MaxText), m \in 0..MaxRetries,
           j \in {<<>>, <<"[json str]">>, <<"[json html]">>} :
          s_case = SanCase("text", <<>>, j \o t, <<>>, NoTextChunk, m)
     \/ \E t \in TextsUpTo(SanTokens, MaxText), p \in {<<>>, <<"<html>", "x">>, <<"<div>">>} :
          s_case = SanCase("text", <<>>, t, <<>>, TextChunk(p), DefaultMaxRetries)
     \/ s_case = SanCase("None", <<>>, <<>>, <<>>, NoTextChunk, DefaultMaxRetries)
  /\ s_html_content = IF s_case.kind = "None" THEN NoTextChunk ELSE TextChunk(s_case.first)
  /\ s_previous_content = s_case.previous_content
  /\ s_max_retries = s_case.max_retries
  /\ s_retry_count = 0
  /\ s_result = NoResult
  /\ s_first = NoResult
  /\ s_iters = 0

NextSan == SanEntry \/ SanIterate \/ SanLoopExit \/ SanContinuation

SpecSan == InitSan /\ [][NextSan]_vars

(***************************************************************************)
(* translate_toc_entries() called on its own with a list of entries; each  *)
(* call of the invoker either returns a response or raises its exhaustion  *)
(* error, which nothing in the function catches.                           *)
(***************************************************************************)
\* lines 299-356, one batch
TocBatch ==
  /\ toc_pc = "batch"
  /\ toc_i < Len(chapters)
  /\ LET batch == SubSeq(chapters, toc_i + 1, Min(toc_i + BatchSize, Len(chapters)))
     IN  \/ \E translated_titles \in ResponseInputs(Len(batch)) :
              LET cleaned_titles == [j \in 1..Len(translated_titles) |->
                                       CleanTitle(translated_titles[j])]
              IN  /\ translated_chapters' = translated_chapters \o
                       [j \in 1..Len(batch) |-> TocEntry(batch[j], cleaned_titles, j)]
                  /\ toc_lines' = Append(toc_lines, Len(translated_titles))
                  /\ toc_i' = toc_i + BatchSize
                  /\ UNCHANGED toc_pc
         \/ /\ toc_pc' = "raised"
            /\ UNCHANGED <<toc_i, translated_chapters, toc_lines>>
  /\ UNCHANGED <<tocRest, chapters>>

\* line 358
TocReturn ==
  /\ toc_pc = "batch"
  /\ ~(toc_i < Len(chapters))
  /\ toc_pc' = "returned"
  /\ UNCHANGED <<tocRest, chapters, toc_i, translated_chapters, toc_lines>>

InitToc ==
  /\ prog = "toc"
  /\ InvIdle
  /\ GIdle
  /\ TIdle(NoConfig)
  /\ SIdle
  /\ ImgIdle
  /\ BIdle
  /\ FIdle
  /\ toc_pc = "batch"
  /\ \E n \in 0..MaxEntries : chapters = TocInput(n)
  /\ toc_i = 0
  /\ translated_chapters = <<>>
  /\ toc_lines = <<>>

NextToc == TocBatch \/ TocReturn

SpecToc == InitToc /\ [][NextToc]_vars

(***************************************************************************)
(* extract_images_from_pdf_page() called for one placeholder of chapter 1  *)
(* with base_counter 1, and the choice create_chapter_html makes.          *)
(***************************************************************************)
\* lines 285-333, one image of the page
ImgStep ==
  /\ img_pc = "loop"
  /\ img_index < Len(page.image_list)
  /\ LET image == page.image_list[img_index + 1]
     IN  IF Skipped(image, page.rect) \/ image.ext = "bad"
         THEN UNCHANGED <<extracted_images, counter>>
         ELSE /\ extracted_images' =
                   Append(extracted_images,
                          [filename |-> <<"chapter", 1, "img", counter,
                                          IF image.ext = "jpeg" THEN "jpeg" ELSE "jpg">>,
                           width |-> image.width, height |-> image.height])
              /\ counter' = counter + 1
  /\ img_index' = img_index + 1
  /\ UNCHANGED <<imgRest, img_pc, page, img_used>>

\* line 335
ImgReturn ==
  /\ img_pc = "loop"
  /\ ~(img_index < Len(page.image_list))
  /\ img_pc' = "returned"
  /\ UNCHANGED <<imgRest, page, img_index, extracted_images, counter, img_used>>

\* create_chapter_html 765-770: the first extracted image is the one used
ImgPick ==
  /\ img_pc = "returned"
  /\ img_pc' = "picked"
  /\ img_used' = IF extracted_images # <<>> THEN extracted_images[1] ELSE NoImage
  /\ UNCHANGED <<imgRest, page, img_index, extracted_images, counter>>

InitImg ==
  /\ prog = "images"
  /\ InvIdle
  /\ GIdle
  /\ TIdle(NoConfig)
  /\ SIdle
  /\ TocIdle
  /\ BIdle
  /\ FIdle
  /\ img_pc = "loop"
  /\ \E l \in ListsUpTo(ImageInputs, MaxPageImages) : page = [rect |-> PageRect, image_list |-> l]
  /\ img_index = 0
  /\ extracted_images = <<>>
  /\ counter = 1
  /\ img_used = NoImage

NextImg == ImgStep \/ ImgReturn \/ ImgPick

SpecImg == InitImg /\ [][NextImg]_vars

(***************************************************************************)
(* Runs of breakdown.py main().                                            *)
(***************************************************************************)
BEnd(how) ==
  /\ b_pc' = "off"
  /\ b_end' = how
  /\ b_retry_count' = 0
  /\ b_response' = "None"

\* main 238-273 and analyze_pdf_structure up to its loop: nothing looks for
\* book_structure.json
BStart ==
  /\ b_pc = "off"
  /\ b_run < MaxRuns
  /\ b_run' = b_run + 1
  /\ b_pc' = "analyze"
  /\ b_end' = "running"
  /\ b_retry_count' = 0
  /\ b_response' = "None"
  /\ b_hist' = BInitHist(book_structure)
  /\ UNCHANGED <<bRest, num_retries, book_structure>>

\* analyze_pdf_structure 191-229, one attempt: the call raises, returns None
\* or returns a response
BAttempt ==
  /\ b_pc = "analyze"
  /\ b_response = "None" /\ b_retry_count < num_retries
  /\ \E out \in {"exc", "null", "no JSON"} \cup StructureInputs :
       /\ b_response' = (IF out \in {"exc", "null"} THEN "None" ELSE out)
       /\ b_hist' = [b_hist EXCEPT !.calls = @ + 1,
                                   !.requests = Append(@, AnalysisRequest),
                                   !.outcomes = Append(@, out)]
  /\ b_retry_count' = b_retry_count + 1
  /\ UNCHANGED <<bRest, b_pc, b_run, b_end, num_retries, book_structure>>

\* a response that is no JSON would be asked for again
BParseMutRetry ==
  /\ b_pc = "analyze"
  /\ ~(b_response = "None" /\ b_retry_count < num_retries)
  /\ IF b_response \in StructureInputs
     THEN /\ b_pc' = "open"
          /\ UNCHANGED <<b_end, b_retry_count, b_response>>
     ELSE IF b_response = "no JSON" /\ b_retry_count < num_retries
     THEN /\ b_response' = "None"
          /\ UNCHANGED <<b_pc, b_end, b_retry_count>>
     ELSE BEnd("raise")
  /\ UNCHANGED <<bRest, b_run, num_retries, book_structure, b_hist>>

\* analyze_pdf_structure 231-235 and main 299-301: ValueError after the last
\* attempt, or json.loads of the response; main logs the exception and
\* raises it again
BParse ==
  /\ b_pc = "analyze"
  /\ ~(b_response = "None" /\ b_retry_count < num_retries)
  /\ IF b_response \in StructureInputs
     THEN /\ b_pc' = "open"
          /\ UNCHANGED <<b_end, b_retry_count, b_response>>
     ELSE BEnd("raise")
  /\ UNCHANGED <<bRest, b_run, num_retries, book_structure, b_hist>>

\* main 279-280: open(output_file, "w")
BOpen ==
  /\ b_pc = "open"
  /\ book_structure' = [state |-> "torn", structure |-> ""]
  /\ b_pc' = "dump"
  /\ UNCHANGED <<bRest, b_run, b_end, num_retries, b_retry_count, b_response, b_hist>>

\* main 281-297: json.dump, the file is closed and the run ends
BDump ==
  /\ b_pc = "dump"
  /\ book_structure' = [state |-> "ok", structure |-> b_response]
  /\ BEnd("done")
  /\ UNCHANGED <<bRest, b_run, num_retries, b_hist>>

\* the process is killed
BCrash ==
  /\ b_pc # "off"
  /\ BEnd("crash")
  /\ UNCHANGED <<bRest, b_run, num_retries, book_structure, b_hist>>

InitBreakdown ==
  /\ prog = "breakdown"
  /\ InvIdle
  /\ GIdle
  /\ TIdle(NoConfig)
  /\ SIdle
  /\ TocIdle
  /\ ImgIdle
  /\ FIdle
  /\ b_pc = "off"
  /\ b_run = 0
  /\ b_end = "none"
  /\ num_retries \in 0..(NumRetries + 1)
  /\ b_retry_count = 0
  /\ b_response = "None"
  /\ book_structure \in {AbsentStructure} \cup
                          {[state |-> "ok", structure |-> x] : x \in StructureInputs}
  /\ b_hist = BInitHist(book_structure)

NextBreakdown == BStart \/ BAttempt \/ BParse \/ BOpen \/ BDump \/ BCrash

SpecBreakdown == InitBreakdown /\ [][NextBreakdown]_vars

(***************************************************************************)
(* The cropping of create_chapter_html() on its own, for every chapter     *)
(* range and page count of a bounded set.  The ranges come from the        *)
(* structure the model returned, so they may lie outside the document.     *)
(***************************************************************************)
\* lines 518-519
CropRange ==
  /\ crop_pc = "range"
  /\ start_page' = StartPage(crop_chapter)
  /\ end_page' = EndPage(crop_chapter, full_pdf)
  /\ page_num' = start_page' - 1
  /\ crop_pc' = "insert"
  /\ UNCHANGED <<cropRest, crop_chapter, full_pdf, chapter_pdf>>

\* lines 530-532, one pass of: for page_num in range(start_page - 1, end_page)
CropInsert ==
  /\ crop_pc = "insert"
  /\ page_num < end_page
  /\ chapter_pdf' = IF page_num < full_pdf THEN Append(chapter_pdf, page_num) ELSE chapter_pdf
  /\ page_num' = page_num + 1
  /\ UNCHANGED <<cropRest, crop_pc, crop_chapter, full_pdf, start_page, end_page>>

\* line 536: chapter_pdf.save(temp_pdf_path), which raises for a document
\* without pages
CropSave ==
  /\ crop_pc = "insert"
  /\ ~(page_num < end_page)
  /\ crop_pc' = IF chapter_pdf = <<>> THEN "raised" ELSE "saved"
  /\ UNCHANGED <<cropRest, crop_chapter, full_pdf, start_page, end_page, page_num, chapter_pdf>>

InitCrop ==
  /\ prog = "crop"
  /\ InvIdle
  /\ GIdle
  /\ TIdle(NoConfig)
  /\ SIdle
  /\ TocIdle
  /\ ImgIdle
  /\ BIdle
  /\ OpfIdle
  /\ LoadIdle
  /\ NavIdle
  /\ crop_pc = "range"
  /\ crop_chapter \in [start_page : -1..(MaxPages + Margin + 1),
                       end_page : -1..(MaxPages + Margin + 1)]
  /\ full_pdf \in 1..MaxPages
  /\ start_page = 0
  /\ end_page = 0
  /\ page_num = 0
  /\ chapter_pdf = <<>>

NextCrop == CropRange \/ CropInsert \/ CropSave

SpecCrop == InitCrop /\ [][NextCrop]_vars

(***************************************************************************)
(* The update of content.opf on its own, for every text of a bounded set.  *)
(***************************************************************************)
\* lines 585-586
OpfRead ==
  /\ opf_pc = "read"
  /\ content_opf_content' = content_opf
  /\ opf_original' = content_opf
  /\ opf_pc' = "sub"
  /\ UNCHANGED <<opfRest, content_opf, translated_book_title>>

\* lines 589-593
OpfSub ==
  /\ opf_pc = "sub"
  /\ content_opf_content' = UpdateTitle(content_opf_content, translated_book_title)
  /\ opf_pc' = "write"
  /\ UNCHANGED <<opfRest, content_opf, translated_book_title, opf_original>>

\* lines 595-596
OpfWrite ==
  /\ opf_pc = "write"
  /\ content_opf' = content_opf_content
  /\ opf_pc' = "written"
  /\ UNCHANGED <<opfRest, content_opf_content, translated_book_title, opf_original>>

InitOpf ==
  /\ prog = "opf"
  /\ InvIdle
  /\ GIdle
  /\ TIdle(NoConfig)
  /\ SIdle
  /\ TocIdle
  /\ ImgIdle
  /\ BIdle
  /\ CropIdle
  /\ LoadIdle
  /\ NavIdle
  /\ opf_pc = "read"
  /\ content_opf \in TextsUpTo(OpfTokens, MaxOpf)
  /\ content_opf_content = <<>>
  /\ translated_book_title \in {"T", "U"}
  /\ opf_original = <<>>

NextOpf == OpfRead \/ OpfSub \/ OpfWrite

SpecOpf == InitOpf /\ [][NextOpf]_vars

(***************************************************************************)
(* load_generation_progress() on its own: the file is absent, cut short or *)
(* holds a dict, which need not fit the structure that is passed.          *)
(***************************************************************************)
\* the dicts a file may hold: any flags, any cursor, with or without a list
\* of records, in any order and number
DictInputs ==
  {[InitialProgress EXCEPT !.flags = [f \in StageFlags |-> b],
                           !.last_processed_chapter_index = x,
                           !.has_chapters = recs.has,
                           !.chapters = recs.list] :
     b \in BOOLEAN, x \in {-1, 0, 7},
     recs \in {[has |-> FALSE, list |-> <<>>],
               [has |-> TRUE, list |-> <<>>],
               [has |-> TRUE, list |-> <<[index |-> 1, title |-> "a", generated |-> TRUE]>>],
               [has |-> TRUE, list |-> <<[index |-> 2, title |-> "b", generated |-> TRUE],
                                         [index |-> 1, title |-> "a", generated |-> FALSE]>>]}}

\* lines 85-87: the file exists; json.load returns its dict, or raises on a
\* file that was cut short
LoadExists ==
  /\ load_pc = "entry"
  /\ progress_file.state # "absent"
  /\ IF progress_file.state = "torn"
     THEN /\ load_pc' = "raised"
          /\ UNCHANGED load_result
     ELSE /\ load_pc' = "returned"
          /\ load_result' = progress_file.data
  /\ UNCHANGED <<loadRest, progress_file, load_structure, load_progress, load_i>>

\* lines 90-107: the default dict, with an empty list "chapters" when a
\* structure is passed
LoadDefault ==
  /\ load_pc = "entry"
  /\ progress_file.state = "absent"
  /\ load_progress' = [InitialProgress EXCEPT !.has_chapters = load_structure.some]
  /\ load_i' = 1
  /\ load_pc' = "seed"
  /\ UNCHANGED <<loadRest, progress_file, load_structure, load_result>>

\* lines 108-113, one pass of the loop over enumerate(structure["chapters"], 1)
LoadAppend ==
  /\ load_pc = "seed"
  /\ load_structure.some /\ load_i <= Len(load_structure.chapters)
  /\ load_progress' = [load_progress EXCEPT
                         !.chapters = Append(@, ChapterRecord(load_i, load_structure.chapters[load_i]))]
  /\ load_i' = load_i + 1
  /\ UNCHANGED <<loadRest, load_pc, progress_file, load_structure, load_result>>

\* line 115
LoadReturn ==
  /\ load_pc = "seed"
  /\ ~(load_structure.some /\ load_i <= Len(load_structure.chapters))
  /\ load_result' = load_progress
  /\ load_pc' = "returned"
  /\ UNCHANGED <<loadRest, progress_file, load_structure, load_progress, load_i>>

InitLoad ==
  /\ prog = "load"
  /\ InvIdle
  /\ GIdle
  /\ TIdle(NoConfig)
  /\ SIdle
  /\ TocIdle
  /\ ImgIdle
  /\ BIdle
  /\ CropIdle
  /\ OpfIdle
  /\ NavIdle
  /\ load_pc = "entry"
  /\ progress_file \in {AbsentFile, TornFile} \cup {SavedFile(d) : d \in DictInputs}
  /\ load_structure \in {NoStructure} \cup
                          {SeedStructure(t) : t \in TextsUpTo({"a", "b"}, MaxSeed)}
  /\ load_progress = NoProgress
  /\ load_i = 0
  /\ load_result = NoProgress

NextLoad == LoadExists \/ LoadDefault \/ LoadAppend \/ LoadReturn

SpecLoad == InitLoad /\ [][NextLoad]_vars

(***************************************************************************)
(* translate_epub.py, a first run that nothing interrupts, from the        *)
(* parsing of toc.ncx to the end of the two unit loops.  Every flag is     *)
(* false when a loop starts, so no unit is skipped for its flag.           *)
(***************************************************************************)
\* parse_toc_ncx: one entry per navPoint that has a content element; the
\* files whose name is no entry's Path(src).name are the additional files;
\* copytree puts every file into translated/
NavParse ==
  /\ nav_pc = "parse"
  /\ nav_chapters' = SelectSeq(nav_points, LAMBDA s : ~s.none)
  /\ \E listing \in Listings({f \in all_html_files :
                                 \A j \in 1..Len(nav_points) :
                                    nav_points[j].none \/ PathName(nav_points[j]) # <<f, "">>}) :
       non_chapter_html_files' = listing
  /\ nav_tree' = [f \in HtmlNames |-> IF f \in all_html_files THEN "orig" ELSE "absent"]
  /\ nav_i' = 0
  /\ nav_pc' = "chapters"
  /\ UNCHANGED <<navRest, nav_points, all_html_files, nav_marked, nav_sent>>

\* if chapter_path: is false, nothing is done for the entry
NavChapterAbsent ==
  /\ nav_pc = "chapters" /\ nav_i < Len(nav_chapters)
  /\ ~Found(nav_chapters[nav_i + 1], all_html_files)
  /\ nav_i' = nav_i + 1
  /\ UNCHANGED <<navRest, nav_pc, nav_points, all_html_files, nav_chapters,
                 non_chapter_html_files, nav_tree, nav_marked, nav_sent>>

\* the file is read, translated, written back and the entry is marked
NavChapterTranslate ==
  /\ nav_pc = "chapters" /\ nav_i < Len(nav_chapters)
  /\ Found(nav_chapters[nav_i + 1], all_html_files)
  /\ LET f == nav_chapters[nav_i + 1].file IN
       /\ nav_sent' = Append(nav_sent, [file |-> f, content |-> nav_tree[f]])
       /\ nav_tree' = [nav_tree EXCEPT ![f] = "tr"]
  /\ nav_marked' = nav_marked \cup {<<"chapter", nav_i>>}
  /\ nav_i' = nav_i + 1
  /\ UNCHANGED <<navRest, nav_pc, nav_points, all_html_files, nav_chapters,
                 non_chapter_html_files>>

\* the chapter loop is over: start_html_index = -1 + 1
NavChaptersEnd ==
  /\ nav_pc = "chapters" /\ nav_i >= Len(nav_chapters)
  /\ nav_i' = 0
  /\ nav_pc' = "html"
  /\ UNCHANGED <<navRest, nav_points, all_html_files, nav_chapters,
                 non_chapter_html_files, nav_tree, nav_marked, nav_sent>>

\* an additional file: html_path.exists() holds for every copied file
NavHtmlTranslate ==
  /\ nav_pc = "html" /\ nav_i < Len(non_chapter_html_files)
  /\ LET f == non_chapter_html_files[nav_i + 1] IN
       /\ nav_sent' = Append(nav_sent, [file |-> f, content |-> nav_tree[f]])
       /\ nav_tree' = [nav_tree EXCEPT ![f] = "tr"]
  /\ nav_marked' = nav_marked \cup {<<"html", nav_i>>}
  /\ nav_i' = nav_i + 1
  /\ UNCHANGED <<navRest, nav_pc, nav_points, all_html_files, nav_chapters,
                 non_chapter_html_files>>

NavHtmlEnd ==
  /\ nav_pc = "html" /\ nav_i >= Len(non_chapter_html_files)
  /\ nav_pc' = "done"
  /\ UNCHANGED <<navRest, nav_points, all_html_files, nav_chapters,
                 non_chapter_html_files, nav_i, nav_tree, nav_marked, nav_sent>>

InitNav ==
  /\ prog = "nav"
  /\ InvIdle
  /\ GIdle
  /\ TIdle(NoConfig)
  /\ SIdle
  /\ TocIdle
  /\ ImgIdle
  /\ BIdle
  /\ CropIdle
  /\ OpfIdle
  /\ LoadIdle
  /\ nav_pc = "parse"
  /\ nav_points \in TextsUpTo(SrcInputs, MaxNav)
  /\ all_html_files \in SUBSET HtmlNames
  /\ nav_chapters = <<>>
  /\ non_chapter_html_files = <<>>
  /\ nav_i = 0
  /\ nav_tree = [f \in HtmlNames |-> "absent"]
  /\ nav_marked = {}
  /\ nav_sent = <<>>

NextNav ==
  \/ NavParse
  \/ NavChapterAbsent
  \/ NavChapterTranslate
  \/ NavChaptersEnd
  \/ NavHtmlTranslate
  \/ NavHtmlEnd

SpecNav == InitNav /\ [][NextNav]_vars

(***************************************************************************)
(* Claims about the assembly pipeline.                                     *)
(***************************************************************************)
\* the chapters a ledger state marks generated
Marked(p, i) == p.has_chapters /\ p.chapters[i]

\* C1: in both pipelines, in every reachable state, crash states included,
\* a chapter, the TOC document or an HTML file is flagged done in the ledger
\* on disk (or in the running process's copy of it) only if its document
\* has been completely written: the save follows the write.
C1_FlagOnlyAfterWrite ==
  /\ \A i \in ChapterIds :
        /\ (g_ledger.state = "ok" /\ Marked(g_ledger.data, i)) => g_docs[i].state = "ok"
        /\ (Running /\ Marked(progress, i)) => g_docs[i].state = "ok"
  /\ (g_ledger.state = "ok" /\ FlagOf("toc_html") \in g_ledger.data.flags)
        => g_docs[0].state = "ok"
  /\ g_ledger.state = "torn" => \A i \in ChapterIds : ~Marked(g_ledger.data, i)
  /\ \A u \in Units :
        /\ (t_ledger.state = "ok" /\ TMarked(t_ledger.data, u)) => t_files[u].state = "tr"
        /\ (TRunning /\ TMarked(t_progress, u)) => t_files[u].state = "tr"

C1_Witness ==
  /\ prog = "translate" /\ t_end.how = "crash"
  /\ t_ledger.state = "ok"
  /\ TMarked(t_ledger.data, <<"chapter", 0>>)
  /\ t_files[<<"chapter", 0>>].state = "tr"
  /\ ~TMarked(t_ledger.data, <<"chapter", 1>>)
  /\ t_files[<<"chapter", 1>>].state = "torn"

\* C2: a run killed after chapter k's document was written and before the
\* ledger save for k began is followed by a run that generates chapter k
\* once, generates no chapter below k, and leaves the documents and the
\* flags of the chapters below k as they were.
C2_ResumeAfterCrash ==
  LET k == g_hist.prev.unit IN
  (g_hist.prev.how = "crash" /\ k > 0) =>
     /\ \A j \in 1..(k - 1) :
          /\ g_hist.gen[j] = 0
          /\ g_docs[j] = g_hist.prev.docs[j]
          /\ g_docs[j].state = "ok"
          /\ Marked(g_hist.prev.ledger.data, j)
          /\ g_ledger.state = "ok" => Marked(g_ledger.data, j)
          /\ Running => Marked(progress, j)
     /\ g_hist.gen[k] <= 1
     /\ g_end.how = "done" => g_hist.gen[k] = 1 /\ g_docs[k].ver = g_run

C2_Witness ==
  /\ g_hist.prev.how = "crash" /\ g_hist.prev.unit = 2
  /\ g_end.how = "done" /\ g_run = 2
  /\ g_hist.gen[2] = 1 /\ g_hist.gen[1] = 0
  /\ g_hist.prev.docs[2].state = "ok"

\* C3: a run that follows a completed run makes no model call, writes no
\* stage or chapter artifact, leaves the ledger as it was and builds an
\* archive with the same entries.
C3_SecondRunIdempotent ==
  g_hist.prev.how = "done" =>
     /\ ~g_hist.called
     /\ g_hist.written = {}
     /\ g_docs = g_hist.prev.docs
     /\ g_ledger = g_hist.prev.ledger
     /\ g_end.how = "done" => g_archive = g_hist.prev.archive

C3_Witness ==
  /\ g_hist.prev.how = "done" /\ g_end.how = "done" /\ g_run = 2
  /\ g_archive.built /\ g_images # {}

\* C4: from a loaded ledger whose cursor lies below every chapter index, a
\* run writes nothing to the document of a marked chapter and does not
\* generate it, writes no artifact of a singleton stage whose flag is set,
\* and on completion has generated every unmarked chapter once.
C4_OnlyUnmarkedGenerated ==
  LET L == g_hist.loaded IN
  (g_run >= 1 /\ L.last_processed_chapter_index < 1) =>
     /\ \A i \in ChapterIds :
          /\ Marked(L, i) =>
                /\ g_hist.gen[i] = 0
                /\ DocEntry(i) \notin g_hist.written
                /\ g_docs[i] = g_hist.prev.docs[i]
          /\ (~Marked(L, i) /\ g_end.how = "done") =>
                /\ g_hist.gen[i] = 1
                /\ g_docs[i].state = "ok" /\ g_docs[i].ver = g_run
     /\ \A s \in FlaggedStages :
          FlagOf(s) \in L.flags => FileOf(s) \notin g_hist.written

C4_Witness ==
  /\ g_run = 1 /\ g_end.how = "done"
  /\ g_hist.loaded.last_processed_chapter_index = -1
  /\ g_hist.loaded.has_chapters
  /\ g_hist.loaded.chapters[NumChapters] /\ ~g_hist.loaded.chapters[1]
  /\ "toc_html_created" \in g_hist.loaded.flags
  /\ "mimetype_created" \notin g_hist.loaded.flags
  /\ g_hist.gen[1] = 1 /\ g_hist.gen[NumChapters] = 0
  /\ g_docs[NumChapters].ver = 0

\* C5: the chapter loop skips chapter i exactly when its record is marked
\* generated or i is at most the stored last_processed_chapter_index.
C5_DoneIffFlagOrCursor ==
  LET L == g_hist.loaded IN
  \A i \in ChapterIds :
     g_hist.decided[i] # "none" =>
        (g_hist.decided[i] = "skip" <=>
           (Marked(L, i) \/ i <= L.last_processed_chapter_index))

C5_Witness ==
  /\ g_run = 1
  /\ g_hist.loaded.last_processed_chapter_index = 1
  /\ g_hist.loaded.has_chapters
  /\ ~g_hist.loaded.chapters[1] /\ g_hist.decided[1] = "skip"
  /\ g_hist.decided[NumChapters] = "gen"

\* C6: the stages that execute in a run do so in the order mimetype,
\* container descriptor, cover image, cover page, stylesheet, navigation
\* descriptor, TOC document, chapters by increasing index, package
\* document, cleanup, archive; none executes twice.
C6_Order ==
  <<"mimetype", "container_xml", "cover", "cover_html", "stylesheet", "toc_ncx",
    "toc_html", "chapters", "content_opf", "cleanup", "epub">>

C6_Rank(e) ==
  (CHOOSE j \in 1..Len(C6_Order) : C6_Order[j] = e[1]) * (NumChapters + 1) + e[2]

C6_FixedStageOrder ==
  \A a, b \in 1..Len(g_hist.log) :
     a < b => C6_Rank(g_hist.log[a]) < C6_Rank(g_hist.log[b])

C6_Witness ==
  /\ g_end.how = "done"
  /\ Len(g_hist.log) = Len(C6_Order) - 1 + NumChapters

(***************************************************************************)
(* Claims about the invoker.                                               *)
(***************************************************************************)
ChunkText(c) == IF c.none THEN <<>> ELSE c.text

ChunkTexts(cs) == [j \in 1..Len(cs) |-> ChunkText(cs[j])]

\* C7: every failed attempt (an exception of any kind, or a null response)
\* counts as one attempt and never leaves the invoker; at most max_retries
\* calls are made; the invoker returns on the first non-null response, and
\* after max_retries failed attempts raises the exhaustion error naming the
\* operation.
C7_RetryContract ==
  /\ i_calls <= max_retries
  /\ retry_count = Cardinality({j \in 1..Len(i_outcomes) : i_outcomes[j] # "ok"})
  /\ i_pc = "returned" =>
        /\ response.some
        /\ i_outcomes # <<>>
        /\ i_outcomes[Len(i_outcomes)] = "ok"
        /\ \A j \in 1..(Len(i_outcomes) - 1) : i_outcomes[j] # "ok"
        /\ i_error = NoError
  /\ i_pc = "raised" =>
        /\ i_error = ExhaustionError(operation_name, max_retries)
        /\ Len(i_outcomes) = max_retries
        /\ i_calls = max_retries
        /\ \A j \in 1..Len(i_outcomes) : i_outcomes[j] \in {"exc", "null"}

C7_Witness ==
  /\ prog = "invoker" /\ i_pc = "raised" /\ max_retries = 3
  /\ i_outcomes = <<"exc", "null", "exc">>

\* C8: the sleeps of one invocation are non-decreasing and never exceed
\* max_backoff, and so is the backoff of every retry attempt 1..n.
C8_BackoffMonotoneCapped ==
  /\ \A j \in 1..Len(i_sleeps) :
        /\ i_sleeps[j] <= max_backoff
        /\ j > 1 => i_sleeps[j - 1] <= i_sleeps[j]
  /\ prog = "invoker" =>
        \A a \in 1..MaxRetries :
          /\ Backoff(a, max_backoff) <= max_backoff
          /\ Backoff(a, max_backoff) <= Backoff(a + 1, max_backoff)

C8_Witness ==
  /\ prog = "invoker" /\ Len(i_sleeps) = 2
  /\ i_sleeps[1] = 21 /\ i_sleeps[2] = 30 /\ max_backoff = 30

\* C9: in streaming mode the returned text is the concatenation, in arrival
\* order, of the text of the chunks received in the successful attempt.
C9_StreamConcatenation ==
  (i_pc = "returned" /\ use_streaming) =>
     response.text = Concat(ChunkTexts(i_chunks))

C9_Witness ==
  /\ prog = "invoker" /\ i_pc = "returned" /\ use_streaming
  /\ retry_count >= 1
  /\ i_chunks = <<TextChunk(<<"a">>), TextChunk(<<"b">>)>>
  /\ response.text = <<"a", "b">>

(***************************************************************************)
(* Claims about the translation pipeline.                                  *)
(***************************************************************************)
\* C10: when the translation of unit i fails (the invoker is exhausted or
\* the sanitizer raises) the run ends with unit i's file as it was read and
\* the ledger file as it was when the call began, unit i unmarked; in the
\* next run every unit marked before stays marked and the first call to the
\* model is the translation of unit i.
C10_FailureHaltsCleanly ==
  /\ (t_end.how = "raise" /\ t_end.unit # NoUnit) =>
        /\ t_files[t_end.unit] = t_hist.at.content
        /\ t_ledger = t_hist.at.ledger
        /\ t_ledger.state = "ok"
        /\ ~TMarked(t_ledger.data, t_end.unit)
  /\ (t_hist.prev.how = "raise" /\ t_hist.prev.unit # NoUnit) =>
        /\ t_hist.calls # <<>> => t_hist.calls[1] = t_hist.prev.unit
        /\ t_end.how \in {"done", "raise"} => t_hist.calls # <<>>
        /\ \A v \in Units :
             (t_ledger.state = "ok" /\ TMarked(t_hist.prev.ledger.data, v))
                => TMarked(t_ledger.data, v)

C10_Witness ==
  /\ t_hist.prev.how = "raise" /\ t_hist.prev.unit = <<"chapter", 1>>
  /\ TMarked(t_hist.prev.ledger.data, <<"chapter", 0>>)
  /\ t_end.how = "done"
  /\ t_hist.calls[1] = <<"chapter", 1>>
  /\ t_files[<<"chapter", 1>>] = TranslatedUnit(OrigUnit)

C19_FailedCallRetried ==
  (g_pc = Off /\ g_end.how = "raise" /\ g_hist.calls > 0)
    => g_hist.calls >= NumRetries

\* the first call for chapter 1 raised and the run was over: one call made,
\* the chapter's temporary PDF still in place, no document written
C19_Witness ==
  /\ g_pc = Off /\ g_end.how = "raise"
  /\ g_hist.calls = 1
  /\ g_hist.log # <<>> /\ g_hist.log[Len(g_hist.log)] = <<"chapters", 1>>
  /\ TempPdf(1) \in g_files
  /\ g_docs[1].state = "absent"

(***************************************************************************)
(* Claims about the sanitizer of utils/html_utils.py.                      *)
(***************************************************************************)
\* C11: for every well-formed document D (a root element with its matching
\* closing tag), clean applied to D wrapped in a fenced code block, with a
\* language tag or without one, returns exactly D.
C11_FencedRoundTrip ==
  (s_case.kind = "wrapped" /\ s_pc = "done")
    => (s_result.kind = "text" /\ s_result.content = s_case.D)

\* a div inside the root div: the call returns the text up to the first
\* closing tag and drops the root's own
C11_Witness ==
  /\ s_case.kind = "wrapped" /\ s_pc = "done"
  /\ s_case.D = <<"<div>", "<div>", "x", "</div>", "</div>">>
  /\ s_result.kind = "text"
  /\ s_result.content = <<"<div>", "<div>", "x", "</div>">>

\* C12: for every well-formed document D and every split of D into a first
\* and a second piece, clean on the first piece followed by clean on the
\* second piece with the first call's partial content as previous_partial
\* yields the same text as clean on D in one call.
C12_SplitRoundTrip ==
  (s_case.kind = "split" /\ s_pc = "done" /\ (s_first # NoResult \/ s_result.kind # "partial"))
    => /\ s_first.kind = "partial"
       /\ s_result.kind = "text"
       /\ s_result = CleanLoop(s_case.D, 0, s_case.max_retries)

\* the first piece ends behind an inner element: the first call returns that
\* element as its text and reports nothing partial, so no second call follows
C12_Witness ==
  /\ s_case.kind = "split" /\ s_pc = "done"
  /\ s_case.D = <<"<html>", "<div>", "x", "</div>", "</html>">>
  /\ s_case.first = <<"<html>", "<div>", "x", "</div>">>
  /\ s_first = NoResult
  /\ s_result.kind = "text"
  /\ s_result.content = <<"<div>", "x", "</div>">>

\* a text without a single opening html, body or div tag, and so without an
\* element, passed with no previous content or with one of the same kind
Structureless ==
  /\ s_case.kind = "text"
  /\ \A i \in 1..Len(s_case.first) : s_case.first[i] \notin OpenTags
  /\ \A i \in 1..Len(s_case.previous_content.text) : s_case.previous_content.text[i] \notin OpenTags

C14_OneEntryPerChapter ==
  /\ toc_pc = "returned" =>
       /\ Len(translated_chapters) = Len(chapters)
       /\ \A j \in 1..Len(chapters) :
            /\ translated_chapters[j].src = chapters[j].src
            /\ translated_chapters[j].original_title = chapters[j].title
            /\ ((j - 1) % BatchSize) + 1 > toc_lines[((j - 1) \div BatchSize) + 1]
                 => translated_chapters[j].title = chapters[j].title
            /\ ((j - 1) % BatchSize) + 1 <= toc_lines[((j - 1) \div BatchSize) + 1]
                 => translated_chapters[j].title \in {<<>>, <<"translated", ((j - 1) % BatchSize) + 1>>}
  /\ toc_pc = "raised" => Len(toc_lines) * BatchSize < Len(chapters)

\* twelve entries in two batches: three lines came back for the first ten
\* titles, three for the last two
C14_Witness ==
  /\ toc_pc = "returned"
  /\ Len(chapters) = 12
  /\ toc_lines = <<3, 3>>
  /\ translated_chapters[3].title = <<"translated", 3>>
  /\ translated_chapters[4].title = <<"title", 4>>
  /\ translated_chapters[12].title = <<"translated", 2>>

(***************************************************************************)
(* Claims about the selection of images.                                   *)
(***************************************************************************)
\* C15: the image chosen for a placeholder, like every image extracted for
\* it, is never an embedded image narrower or shorter than 100 px, nor one
\* whose width and height both exceed 90% of the page's width and height.
C15_NoSmallNoFullPage ==
  \A e \in {img_used} \cup {extracted_images[j] : j \in 1..Len(extracted_images)} :
     e # NoImage =>
       /\ e.width >= 100 /\ e.height >= 100
       /\ ~(e.width * 10 > page.rect.width * 9 /\ e.height * 10 > page.rect.height * 9)
       /\ \E j \in 1..Len(page.image_list) :
            page.image_list[j].width = e.width /\ page.image_list[j].height = e.height

\* an icon is passed over and the second image, exactly as wide as 90% of
\* the page and taller than 90% of it, is chosen
C15_Witness ==
  /\ img_pc = "picked"
  /\ Len(page.image_list) >= 2
  /\ page.image_list[1].width = 99
  /\ page.image_list[2].width = 540 /\ page.image_list[2].height = 721
  /\ img_used.width = 540 /\ img_used.height = 721

(***************************************************************************)
(* Claims about the archives.                                              *)
(***************************************************************************)
\* C17: the archive a completed run of either pipeline has built holds
\* exactly one mimetype entry, stored uncompressed, and every other file of
\* the working EPUB tree exactly once, compressed.
C17_ArchiveLayout ==
  /\ (g_pc = Off /\ g_end.how = "done")
       => /\ g_archive.built
          /\ g_archive.stored = {Entry("mimetype")}
          /\ g_archive.deflated = TreeFiles(g_files, g_docs, g_images) \ {Entry("mimetype")}
  /\ (t_pc = Off /\ t_end.how = "done")
       => /\ t_archive.built
          /\ t_archive.stored = {<<"mimetype", 0>>}
          /\ t_archive.deflated = TTreeFiles(t_files, t_meta)

\* a translation run that ended before the copy of the extracted files left
\* translated/ empty; the next run took itself for a resumed one, skipped
\* the copy and built an archive without any entry
C17_Witness ==
  /\ t_pc = Off /\ t_end.how = "done" /\ t_run = 2
  /\ t_archive.built
  /\ t_archive.stored = {}
  /\ t_archive.deflated = {}

(***************************************************************************)
(* Claims about the structure analysis.                                    *)
(***************************************************************************)
\* C18: the structure analysis is made at most once per book: in a run of
\* the structure stage that finds book_structure.json in place, no model
\* call is made and the file stays as it was.
C18_CachedStructureKept ==
  (b_run >= 1 /\ b_hist.start.state = "ok")
    => (b_hist.calls = 0 /\ book_structure = b_hist.start)

\* a run that found structure A cached has called the model and has written
\* structure B over it
C18_Witness ==
  /\ b_pc = "off" /\ b_end = "done"
  /\ b_hist.start = [state |-> "ok", structure |-> "structure A"]
  /\ b_hist.calls = 1
  /\ book_structure = [state |-> "ok", structure |-> "structure B"]

(***************************************************************************)
(* Claims about resumed translation runs.                                  *)
(***************************************************************************)
\* C20: when a translation run is killed at any point and the next run
\* completes, the end state is that of an uninterrupted run: translated/
\* holds every file of the source EPUB, every chapter and every other HTML
\* file that the EPUB holds is marked translated in the ledger, and no unit
\* that was marked translated when the run began was sent to the model.
C20_ResumedRunCompletes ==
  (t_pc = Off /\ t_end.how = "done" /\ t_hist.prev.how = "crash")
    => /\ t_meta.ncx # "absent" /\ t_meta.opf # "absent" /\ t_meta.mimetype
       /\ \A u \in Units :
            ~(u[1] = "chapter" /\ u[2] \in t_cfg.missing)
              => /\ t_files[u].state # "absent"
                 /\ t_ledger.state = "ok" /\ TMarked(t_ledger.data, u)
       /\ \A k \in 1..Len(t_hist.calls) :
            t_hist.calls[k] \in Units => ~TMarked(t_hist.prev.ledger.data, t_hist.calls[k])

\* the first run was killed before the extracted files were copied; the
\* second run took translated/ for a tree to resume, copied nothing, found
\* no file to translate and completed with every unit unmarked
C20_Witness ==
  /\ t_pc = Off /\ t_end.how = "done" /\ t_hist.prev.how = "crash"
  /\ t_cfg.missing = {}
  /\ \A u \in Units : t_files[u].state = "absent" /\ ~TMarked(t_ledger.data, u)
  /\ ~t_meta.mimetype

(***************************************************************************)
(* Claims about the retry schedule, the sanitizer's choice of element and   *)
(* the resume points of the pipelines.                                      *)
(***************************************************************************)
\* C21: no sleep precedes the first attempt; between the k-th failed attempt
\* and attempt k+1 the invoker sleeps exactly min(2^k + 0.1*k, max_backoff)
\* seconds (here in tenths of a second); no sleep follows the final failed
\* attempt.
C21_SleepSchedule ==
  i_pc # "idle" =>
    /\ Len(i_sleeps) = (IF i_calls = 0 THEN 0 ELSE i_calls - 1)
    /\ \A k \in 1..Len(i_sleeps) :
          /\ i_sleeps[k] = Min(10 * Pow2(k) + k, max_backoff)
          /\ i_outcomes[k] \in {"exc", "null"}
    /\ i_pc = "raised" =>
          Len(i_sleeps) = (IF max_retries = 0 THEN 0 ELSE max_retries - 1)

C21_Witness ==
  /\ prog = "invoker" /\ i_pc = "raised" /\ max_retries = 3 /\ max_backoff = 30
  /\ i_sleeps = <<21, 30>>
  /\ i_outcomes = <<"null", "exc", "null">>

\* the text the patterns are searched in once the call is over, and whether
\* it holds an element of a kind: an opening tag with its closing tag behind
Searched == StripFences(JsonLoads(s_html_content.text))

HasElement(t, open) ==
  \E a \in 1..Len(t), b \in 1..Len(t) : a < b /\ t[a] = open /\ t[b] = CloseOf(open)

\* C22: the returned document is an html element of the text when the text
\* holds one, else a body element when it holds one, else a div element; a
\* match of lower priority is never returned when one of higher priority
\* exists, wherever in the text the two lie.
C22_PriorityOrder ==
  s_pc = "done" =>
    LET t == Searched
        kind == IF HasElement(t, "<html>") THEN "<html>"
                ELSE IF HasElement(t, "<body>") THEN "<body>"
                ELSE "<div>"
        c == s_result.content
    IN  /\ s_iters >= 1 => (s_result.kind = "text" <=> \E o \in OpenTags : HasElement(t, o))
        /\ s_result.kind = "text" =>
             /\ Head(c) = kind /\ c[Len(c)] = CloseOf(kind)
             /\ \E a \in 1..Len(t) : c = SubSeq(t, a, a + Len(c) - 1)

\* a div element in front of a body element: the body element is returned
C22_Witness ==
  /\ s_pc = "done" /\ s_case.kind = "text"
  /\ Searched = <<"<div>", "</div>", "<body>", "</body>">>
  /\ s_result.kind = "text"
  /\ s_result.content = <<"<body>", "</body>">>

\* the accumulated text of a call on a text: the previous partial content,
\* when one is passed, followed by the new text, and what the cleanup of
\* lines 42-54 leaves of it
Accumulated ==
  (IF s_case.previous_content.none THEN <<>> ELSE s_case.previous_content.text) \o s_case.first

Truncated ==
  /\ s_case.kind = "text"
  /\ \E i \in 1..Len(Accumulated) : Accumulated[i] \in OpenTags
  /\ \A o \in OpenTags : ~HasElement(Accumulated, o)

C24_NoGarbageAccepted ==
  \A i \in ChapterIds :
    /\ g_docs[i].state = "ok" => g_docs[i].html
    /\ (g_ledger.state = "ok" /\ g_ledger.data.chapters[i] /\ g_docs[i].state = "ok")
         => g_docs[i].html

\* a run completes with chapter 1 marked generated in the saved ledger and
\* its document holding the response's text, which has no html element
C24_Witness ==
  /\ prog = "generate" /\ g_end.how = "done"
  /\ g_docs[1].state = "ok" /\ ~g_docs[1].html
  /\ g_ledger.state = "ok" /\ g_ledger.data.chapters[1]

\* C25: the analysis makes at most num_retries calls, each with the same
\* request and with no sleep between them; a call that raises or returns no
\* response is followed by the next call; after num_retries such calls the
\* analysis fails with an error; a response that is no valid JSON fails the
\* analysis without a further call.
C25_ImmediateRetry ==
  LET outs == b_hist.outcomes
      failed(j) == outs[j] \in {"exc", "null"}
  IN  b_run >= 1 =>
        /\ b_hist.calls = Len(outs) /\ b_hist.calls <= num_retries
        /\ Len(b_hist.requests) = b_hist.calls
        /\ \A j \in 1..Len(b_hist.requests) :
             b_hist.requests[j] = [model |-> "model", contents |-> <<"prompt", "input.pdf">>]
        /\ b_hist.sleeps = <<>>
        /\ \A j \in 1..(Len(outs) - 1) : failed(j)
        /\ (b_pc = "analyze" /\ Len(outs) < num_retries /\ \A j \in 1..Len(outs) : failed(j))
             => ENABLED BAttempt
        /\ (b_pc = "off" /\ b_end = "raise") =>
             \/ Len(outs) = num_retries /\ \A j \in 1..Len(outs) : failed(j)
             \/ outs # <<>> /\ outs[Len(outs)] = "no JSON"
        /\ (outs # <<>> /\ outs[Len(outs)] = "no JSON") => b_pc \in {"analyze", "off"}
        /\ (b_pc = "off" /\ b_end = "done") => outs[Len(outs)] \in StructureInputs

\* a failed call, then a response that is no JSON ends the run with one
\* attempt left
C25_Witness ==
  /\ b_pc = "off" /\ b_end = "raise" /\ num_retries = 3
  /\ b_hist.outcomes = <<"exc", "no JSON">>

(***************************************************************************)
(* Claims about the cropping of the PDF, the package document and the      *)
(* loading of the assembly ledger.                                         *)
(***************************************************************************)
\* C26: for a chapter with range [s, e] in a PDF of N pages the pages put
\* into the chapter's PDF are those of [max(1, s-3), min(e+3, N)], in
\* order and once each: they lie within [1, N] and include every page of
\* [s, e] that the document has.
C26_CropWithinDocument ==
  crop_pc \in {"saved", "raised"} =>
    LET s == crop_chapter.start_page
        e == crop_chapter.end_page
        N == full_pdf
        lo == IF s - 3 > 1 THEN s - 3 ELSE 1
        hi == IF e + 3 < N THEN e + 3 ELSE N
        pages == {chapter_pdf[j] + 1 : j \in 1..Len(chapter_pdf)}
    IN  /\ pages = lo..hi
        /\ \A j \in 1..(Len(chapter_pdf) - 1) : chapter_pdf[j] < chapter_pdf[j + 1]
        /\ pages \subseteq 1..N
        /\ (s..e) \cap (1..N) \subseteq pages
        /\ crop_pc = "saved" <=> pages # {}

\* a chapter that begins before the first page and ends behind the last
C26_Witness ==
  /\ crop_pc = "saved"
  /\ crop_chapter = [start_page |-> 0, end_page |-> 7] /\ full_pdf = 5
  /\ chapter_pdf = <<0, 1, 2, 3, 4>>

\* the package document with the content of its first title element, and
\* of no other, replaced
ReplaceFirstTitle(content, title) ==
  ReSub(content, <<"<dc:title>", title, "</dc:title>">>, 1, 1)

\* C28: the update of the package document replaces the content of the
\* first title element only with the translated book title; every further
\* title element and all other text are left as they were.
C28_FirstTitleOnly ==
  opf_pc = "written" =>
    content_opf = ReplaceFirstTitle(opf_original, translated_book_title)

\* a package document with two title elements: both hold the translated
\* title afterwards
C28_Witness ==
  /\ opf_pc = "written" /\ translated_book_title = "T"
  /\ opf_original = <<"<dc:title>", "x", "</dc:title>", "<dc:title>", "</dc:title>">>
  /\ content_opf = <<"<dc:title>", "T", "</dc:title>", "<dc:title>", "T", "</dc:title>">>

\* C30: when the ledger file exists, the dict it holds is returned as it is,
\* whatever structure is passed and whether or not the two fit; when the
\* file is absent and a structure is passed, the dict returned has every
\* stage flag false, the cursor at -1 and one record per chapter of the
\* structure, with index 1..N in order and generated false.
C30_LoadVerbatimOrSeed ==
  /\ load_pc = "returned" =>
       /\ progress_file.state = "ok" => load_result = progress_file.data
       /\ (progress_file.state = "absent" /\ load_structure.some) =>
            /\ \A f \in StageFlags : ~load_result.flags[f]
            /\ load_result.last_processed_chapter_index = -1
            /\ load_result.has_chapters
            /\ Len(load_result.chapters) = Len(load_structure.chapters)
            /\ \A j \in 1..Len(load_result.chapters) :
                 load_result.chapters[j] =
                   [index |-> j, title |-> load_structure.chapters[j], generated |-> FALSE]
  /\ load_pc = "raised" => progress_file.state = "torn"

\* a file with two records, out of order and one generated, is returned as
\* it is although the structure passed has three chapters
C30_Witness ==
  /\ load_pc = "returned"
  /\ progress_file.state = "ok"
  /\ Len(progress_file.data.chapters) = 2 /\ progress_file.data.chapters[1].index = 2
  /\ progress_file.data.last_processed_chapter_index = 7
  /\ load_structure = SeedStructure(<<"a", "b", "a">>)
  /\ load_result = progress_file.data

(***************************************************************************)
(* Claims about the unit loops of the translation pipeline.                *)
(***************************************************************************)
\* C29: every translation call of a unit other than the first one of the
\* book is given as context the text of the unit translated last, cut to
\* previous_content_limit; with a limit of 0 no call is given a context.
C29_ContextCarried ==
  \A j \in 1..Len(t_hist.ctx) :
    LET c == t_hist.ctx[j]
        limit == t_cfg.previous_content_limit
    IN  /\ limit = 0 => c.context.none
        /\ (limit > 0 /\ ~c.last.none) =>
             /\ ~c.context.none
             /\ c.context.text =
                  SubSeq(c.last.text, 1, IF limit < Len(c.last.text) THEN limit ELSE Len(c.last.text))

\* the first run translated chapter 0 and then failed; the second run
\* translates chapter 1 without any context
C29_Witness ==
  /\ prog = "translate" /\ t_run = 2 /\ t_cfg.previous_content_limit = ContextLimit
  /\ t_hist.prev.how = "raise"
  /\ Len(t_hist.ctx) = 1
  /\ t_hist.ctx[1].unit = <<"chapter", 1>>
  /\ t_hist.ctx[1].last = TextChunk(<<"<html>", "y", "</html>">>)
  /\ t_hist.ctx[1].context.none

\* C27: a run that resumes on a saved ledger starts the chapters at
\* last_processed_chapter_index + 1 and the additional files at
\* last_processed_html_index + 1, each cursor deciding for its own kind
\* only; a unit beyond its cursor whose flag is set is skipped, and every
\* other unit beyond its cursor whose file is in the translated tree is
\* translated, once and in order.
C27_ResumeAtCursors ==
  LET L == t_hist.prev.ledger
      cursor(kind) == IF kind = "chapter" THEN L.data.last_processed_chapter_index
                      ELSE L.data.last_processed_html_index
      flag(u) == IF u[1] = "chapter" THEN L.data.translated_chapters[u[2] + 1]
                 ELSE L.data.translated_html_files[u[2] + 1]
      due(u) == u[2] > cursor(u[1]) /\ ~flag(u)
      calls == SelectSeq(t_hist.calls, LAMBDA w : w \in Units)
  IN  (/\ prog = "translate" /\ t_run >= 1
       /\ L.state = "ok" /\ L.data.toc_translated
       /\ Len(L.data.translated_html_files) = NumExtra)
        => /\ \A j \in 1..Len(calls) : due(calls[j])
           /\ \A j \in 1..Len(calls), k \in 1..Len(calls) :
                j < k => \/ calls[j][1] = "chapter" /\ calls[k][1] = "html"
                         \/ calls[j][1] = calls[k][1] /\ calls[j][2] < calls[k][2]
           /\ (t_pc = Off /\ t_end.how = "done") =>
                \A u \in Units : (due(u) /\ t_files[u].state # "absent")
                                     => \E j \in 1..Len(calls) : calls[j] = u

\* chapter 1 lies beyond the chapter cursor and is flagged, the additional
\* file lies at its cursor and is not flagged: only chapter 0 is translated
C27_Witness ==
  /\ prog = "translate" /\ t_pc = Off /\ t_end.how = "done" /\ t_run = 1
  /\ t_hist.prev.ledger.state = "ok"
  /\ t_hist.prev.ledger.data.last_processed_chapter_index = -1
  /\ t_hist.prev.ledger.data.translated_chapters = <<FALSE, TRUE>>
  /\ t_hist.prev.ledger.data.last_processed_html_index = 0
  /\ t_hist.prev.ledger.data.translated_html_files = <<FALSE>>
  /\ t_hist.calls = <<<<"chapter", 0>>>>

(***************************************************************************)
(* Claims about the discarding of failed streams, the ledgers on disk and  *)
(* what the pipelines send to the model and leave in their trees.          *)
(***************************************************************************)
\* C40: in streaming mode the chunks received in an attempt that failed
\* part-way are discarded: every attempt starts from an empty text, a
\* failed attempt leaves the response None, and the text returned is made
\* of the chunks of the attempt that succeeded alone, whatever the failed
\* attempts had received.
C40_FailedChunksDiscarded ==
  (prog = "invoker" /\ use_streaming /\ i_pc # "idle") =>
     /\ Len(i_failed) = retry_count
     /\ i_pc = "stream" => aggregated_response = Concat(ChunkTexts(i_chunks))
     /\ ~response.some => i_pc # "returned"
     /\ i_pc = "returned" =>
          /\ response.some
          /\ Concat(ChunkTexts(Concat(i_failed))) \o response.text
               = Concat(ChunkTexts(Concat(i_failed) \o i_chunks))

\* the first attempt failed after a chunk "a", the second delivered "b"
C40_Witness ==
  /\ prog = "invoker" /\ i_pc = "returned" /\ use_streaming
  /\ i_failed = <<<<TextChunk(<<"a">>)>>>>
  /\ i_chunks = <<TextChunk(<<"b">>)>>
  /\ response.text = <<"b">>

\* C38: the generation of one chapter, or of the TOC document, makes at
\* most num_retries model calls, and exactly one call when the first
\* response carries text.
C38_CallsWithinRetries ==
  (prog = "generate" /\ g_pc.k \in {"loop", "extract", "open", "write"}) =>
     /\ g_hist.calls <= NumRetries
     /\ (~g_html.none /\ g_retry = 1) => g_hist.calls = 1

\* chapter 1: the call before the loop, a call whose response held no text
\* and a call whose response is the document: one call more than num_retries
C38_Witness ==
  /\ prog = "generate" /\ g_pc.s = "chapters" /\ g_pc.i = 1 /\ g_pc.k = "open"
  /\ ~g_html.none /\ g_retry = NumRetries
  /\ g_hist.calls = NumRetries + 1

\* C39: a run of the assembly that is not treated as resuming starts with
\* every singleton flag false and every chapter not done, also when a
\* ledger of an earlier run exists, so a run that completes has written
\* every document of the archive itself.
C39_FreshRunStartsClean ==
  (prog = "generate" /\ g_run >= 1 /\ ~g_hist.resuming /\ g_hist.prev.ledger.state # "torn") =>
     /\ g_hist.loaded.flags = {}
     /\ \A i \in ChapterIds : ~Marked(g_hist.loaded, i)
     /\ (g_pc = Off /\ g_end.how = "done") =>
          \A d \in DocIds : g_docs[d].state = "ok" /\ g_docs[d].ver = g_run

\* epub/ is gone and the ledger of a completed run is still there: the run
\* is not resuming, loads that ledger, skips every stage and ends with the
\* error of create_epub
C39_Witness ==
  /\ prog = "generate" /\ g_run = 1 /\ g_pc = Off /\ g_end.how = "raise"
  /\ ~g_hist.resuming
  /\ g_hist.prev.ledger.state = "ok"
  /\ g_hist.loaded = g_hist.prev.ledger.data
  /\ "mimetype_created" \in g_hist.loaded.flags
  /\ \A i \in ChapterIds : Marked(g_hist.loaded, i)
  /\ g_hist.log = <<<<"cleanup", 0>>, <<"epub", 0>>>>
  /\ g_files = {} /\ ~g_archive.built

\* C37: when the archive of the assembly is built, every image file the
\* manifest of content.opf lists is in the working tree: the cleanup removes
\* no image the manifest written before it lists.
C37_ManifestImagesExist ==
  (prog = "generate" /\ g_pc = Off /\ g_end.how = "done") => g_opf \subseteq g_images

\* a page of chapter 1 held two qualifying images: both were written and
\* listed, the document refers to the first, the cleanup removed the second
C37_Witness ==
  /\ prog = "generate" /\ g_pc = Off /\ g_end.how = "done" /\ g_run = 1
  /\ g_archive.built
  /\ ImageEntry(1, 1) \in g_opf /\ ImageEntry(1, 1) \in g_images
  /\ ImageEntry(1, 2) \in g_opf /\ ImageEntry(1, 2) \notin g_images
  /\ ImageEntry(1, 2) \notin g_archive.deflated

\* C33: whenever the ledger on disk of the translation says toc_translated,
\* toc.ncx of the translated tree has been rewritten with the translated
\* titles; so a run that completes after a crash and a resume leaves the
\* translated titles in toc.ncx.
C33_TocFlagMeansNcxUpdated ==
  (prog = "translate" /\ t_ledger.state = "ok" /\ t_ledger.data.toc_translated)
     => t_meta.ncx = "updated"

\* the first run was killed after the copy and before update_toc_ncx; the
\* second run resumed, skipped the update and completed with the original
\* titles in toc.ncx
C33_Witness ==
  /\ prog = "translate" /\ t_run = 2 /\ t_pc = Off /\ t_end.how = "done"
  /\ t_hist.prev.how = "crash"
  /\ t_hist.prev.ledger.state = "ok" /\ t_hist.prev.ledger.data.toc_translated
  /\ t_ledger.data.toc_translated
  /\ t_meta.ncx = "orig"
  /\ t_archive.built

\* C34: what the translation sends to the model for a unit is the unit's
\* original document of the input EPUB, never the output of an earlier
\* translation of the unit, also in a run resumed after a kill between the
\* writing of the unit's file and the saving of the ledger.
C34_OriginalSent ==
  (/\ prog = "translate" /\ t_hist.calls # <<>>
   /\ t_hist.calls[Len(t_hist.calls)] \in Units)
     => t_hist.at.content = OrigUnit

\* the first run was killed when chapter 0 was written and not yet marked;
\* the second run reads the translated file and sends it to the model
C34_Witness ==
  /\ prog = "translate" /\ t_run = 2
  /\ t_hist.prev.how = "crash" /\ t_hist.prev.unit = <<"chapter", 0>>
  /\ t_hist.calls # <<>> /\ t_hist.calls[Len(t_hist.calls)] = <<"chapter", 0>>
  /\ t_hist.at.content = TranslatedUnit(OrigUnit)
  /\ t_read = TranslatedUnit(OrigUnit)

\* C35: within one complete run of the translation each HTML file of the
\* EPUB is sent to the model at most once, also when several entries of
\* toc.ncx name the same file.
C35_EachFileSentOnce ==
  prog = "nav" =>
    \A j \in 1..Len(nav_sent), k \in 1..Len(nav_sent) :
       j # k => nav_sent[j].file # nav_sent[k].file

\* two entries name a.html: the file is sent for the first entry and, now
\* holding its translation, again for the second
C35_Witness ==
  /\ prog = "nav" /\ nav_pc = "done"
  /\ nav_points = <<Src("a.html", ""), Src("a.html", "")>>
  /\ all_html_files = {"a.html", "b.html"}
  /\ nav_sent = <<[file |-> "a.html", content |-> "orig"],
                  [file |-> "a.html", content |-> "tr"],
                  [file |-> "b.html", content |-> "orig"]>>
  /\ nav_marked = {<<"chapter", 0>>, <<"chapter", 1>>, <<"html", 0>>}

\* C36: in every ledger of the translation, in memory or on disk, every
\* chapter at or before last_processed_chapter_index is marked translated,
\* and every additional file at or before last_processed_html_index
\* likewise: no untranslated unit lies behind a cursor.
C36_MarkedBehindCursor ==
  LET behind(p) ==
        /\ \A j \in 1..Len(p.translated_chapters) :
             j - 1 <= p.last_processed_chapter_index => p.translated_chapters[j]
        /\ \A j \in 1..Len(p.translated_html_files) :
             j - 1 <= p.last_processed_html_index => p.translated_html_files[j]
  IN  prog = "translate" =>
        /\ behind(t_progress)
        /\ t_ledger.state = "ok" => behind(t_ledger.data)

\* the file of chapter 0 is not in the tree: the entry is passed over
\* unmarked, chapter 1 is translated and the cursor moves behind both
C36_Witness ==
  /\ prog = "translate" /\ t_run = 1 /\ t_pc = Off /\ t_end.how = "done"
  /\ t_cfg.missing = {0}
  /\ t_ledger.state = "ok"
  /\ t_ledger.data.last_processed_chapter_index = 1
  /\ t_ledger.data.translated_chapters = <<FALSE, TRUE>>
  /\ t_files[<<"chapter", 0>>].state = "absent"

\* the cursors of a ledger of the assembly (one) and of the translation
\* (chapters, additional files)
GCursors(p) == <<p.last_processed_chapter_index>>

TCursors(p) == <<p.last_processed_chapter_index, p.last_processed_html_index>>

NotBefore(a, b) == \A j \in 1..Len(a) : a[j] >= b[j]

\* C32: in both pipelines the cursor stored in the ledger never decreases,
\* whatever units complete, wherever the process is killed and however
\* often it is run again: a save begins with cursors that are not before
\* those on disk, the cursors in memory never go back during a run, the
\* save stores the cursors in memory, and a run starts from those on disk.
C32_CursorMonotone ==
  [][/\ (g_ledger.state = "ok" /\ g_ledger'.state = "ok")
          => NotBefore(GCursors(g_ledger'.data), GCursors(g_ledger.data))
     /\ (g_ledger.state = "ok" /\ g_ledger'.state = "torn")
          => NotBefore(GCursors(progress'), GCursors(g_ledger.data))
     /\ (g_ledger.state = "torn" /\ g_ledger'.state = "ok")
          => GCursors(g_ledger'.data) = GCursors(progress)
     /\ (g_pc # Off /\ g_pc' # Off)
          => NotBefore(GCursors(progress'), GCursors(progress))
     /\ (g_pc = Off /\ g_pc' # Off /\ g_ledger.state = "ok")
          => GCursors(progress') = GCursors(g_ledger.data)
     /\ (t_ledger.state = "ok" /\ t_ledger'.state = "ok")
          => NotBefore(TCursors(t_ledger'.data), TCursors(t_ledger.data))
     /\ (t_ledger.state = "ok" /\ t_ledger'.state = "torn")
          => NotBefore(TCursors(t_progress'), TCursors(t_ledger.data))
     /\ (t_ledger.state = "torn" /\ t_ledger'.state = "ok")
          => TCursors(t_ledger'.data) = TCursors(t_progress)
     /\ (t_pc # Off /\ t_pc' # Off)
          => NotBefore(TCursors(t_progress'), TCursors(t_progress))
     /\ (t_pc = Off /\ t_pc' # Off /\ t_ledger.state = "ok")
          => TCursors(t_progress') = TCursors(t_ledger.data)
    ]_vars

\* the first run was killed with chapter 0 saved; the second run has just
\* saved chapter 1: the cursor on disk went from 0 to 1
C32_Witness ==
  /\ prog = "translate" /\ t_run = 2
  /\ t_hist.prev.how = "crash"
  /\ t_hist.prev.ledger.state = "ok"
  /\ t_hist.prev.ledger.data.last_processed_chapter_index = 0
  /\ t_ledger.state = "ok"
  /\ t_ledger.data.last_processed_chapter_index = 1
  /\ t_ledger.data.translated_chapters = <<TRUE, TRUE>>

\* C31: in both pipelines the ledger is saved whole after every stage and
\* unit, before the next begins: wherever the process is killed, the ledger
\* on disk is a ledger that differs from the progress in memory by no more
\* than the stage or unit in flight.  A stage marks its flag in memory and
\* saves at once, so a readable ledger on disk is the progress in memory.
C31_DiskTracksMemory ==
  /\ (prog = "generate" /\ g_pc # Off /\ g_ledger.state # "absent")
       => g_ledger.state = "ok" /\ g_ledger.data = progress
  /\ (prog = "translate" /\ t_pc # Off /\ t_ledger.state # "absent")
       => t_ledger.state = "ok" /\ t_ledger.data = t_progress

\* the process was killed while chapter 1's save was being written: the
\* file was opened for writing and holds no ledger, the ledger of the
\* stages before it is gone
C31_Witness ==
  /\ prog = "generate" /\ g_run = 1 /\ g_pc = Off /\ g_end.how = "crash"
  /\ g_ledger.state = "torn"
  /\ g_docs[1].state = "ok"
  /\ Entry("mimetype") \in g_files
  /\ g_hist.log # <<>> /\ g_hist.log[Len(g_hist.log)] = <<"chapters", 1>>

====
